---- MODULE Spec2Model ----
(***************************************************************************)
(* SmartSkip Player: the media acquisition pipeline of App               *)
(* (handleUrlSubmit, resolveYoutubeUrl), the App state around it, and the  *)
(* segment-skip engine of VideoPlayer (handleTimeUpdate and the toggles).  *)
(*                                                                         *)
(* Strings are modelled as sequences of tokens: "/", "?", "&" and "=" are  *)
(* tokens of their own, every other token is a run of other characters.    *)
(* Every await of the code is a step boundary: an action is the code that  *)
(* runs between two awaits (or a whole synchronous handler).               *)
(***************************************************************************)
EXTENDS Integers, Sequences, FiniteSets, TLC

\* ------------------------------------------------------------------ bounds
\* Number of acquisitions (handleUrlSubmit calls) that may be in flight at once.
MaxAcq == 2
\* Number of analyses (startAnalysis calls) that may be in flight at once.
MaxAnalyses == 1

\* The play head and segment bounds lie in 0..MaxTime (seconds).
MaxTime == 4
\* Number of visual-feedback resets (setTimeout callbacks) that may be pending.
MaxTimers == 2
\* Number of query parameters of the links given to the sanitize step.
MaxParams == 2
\* The polls of an upload handle are counted up to MaxPolls.
MaxPolls == 3

\* ------------------------------------------------------- program constants
\* resolveYoutubeUrl: the number of resolver instances in its list.
NumInstances == 9
\* handleUrlSubmit: the number of proxy strategies in its list.
NumProxies == 3
\* VideoPlayer: the rate it starts with, and the rate of Smart x2 (in tenths).
BaseRate == 10
TurboRate == 20

\* null and undefined where a string is expected; null where an object is expected.
Null == <<"#null">>
Undefined == <<"#undefined">>
NoValue == [null |-> TRUE]

\* ------------------------------------------------------------------- state
VARIABLES
  videoFile,        \* App: useState<VideoFile | null>
  analysisStatus,   \* App: useState<AnalysisStatus>
  analysisResult,   \* App: useState<AnalysisResult | null>
  error,            \* App: useState<string | null>
  progressMessage,  \* App: useState<string>
  activeTab,        \* App: useState<'upload' | 'url'>
  urlInput,         \* App: useState('')
  isDownloading,    \* App: useState(false)
  downloadStatus,   \* App: useState<string>
  acq,              \* the handleUrlSubmit calls in flight, one record per slot
  analyses,         \* the startAnalysis calls in flight: the files they analyse
  currentTime,      \* VideoPlayer: useState(0)
  playbackRate,     \* VideoPlayer: useState(1.0), in tenths
  smartSkipEnabled, \* VideoPlayer: useState(false)
  isSkipping,       \* VideoPlayer: useState(false)
  skipReason,       \* VideoPlayer: useState<string | null>
  videoTime,        \* videoRef.current.currentTime, the play head
  videoRate,        \* videoRef.current.playbackRate, in tenths
  resetTimers,      \* the setTimeout callbacks of handleTimeUpdate that are pending
  rawUrl,           \* resolveYoutubeUrl called on its own: its argument url
  cleanUrl,         \* resolveYoutubeUrl called on its own: its local cleanUrl
  job,              \* analyzeVideoContent called on its own: its position and locals
  ev                \* history: the last handler step, with the state it started from

appVars == <<videoFile, analysisStatus, analysisResult, error, progressMessage,
             activeTab, urlInput, isDownloading, downloadStatus>>
playerVars == <<currentTime, playbackRate, smartSkipEnabled, isSkipping, skipReason,
                videoTime, videoRate, resetTimers>>
normVars == <<rawUrl, cleanUrl>>
\* The variables of the functions that are run on their own.
unitVars == <<normVars, job>>
vars == <<videoFile, analysisStatus, analysisResult, error, progressMessage,
          activeTab, urlInput, isDownloading, downloadStatus, acq, analyses,
          currentTime, playbackRate, smartSkipEnabled, isSkipping, skipReason,
          videoTime, videoRate, resetTimers, rawUrl, cleanUrl, job, ev>>

Slots == 1..MaxAcq

\* ------------------------------------------------------------ URL strings
YoutubeShort == <<"https:", "/", "/", "youtu.be", "/", "abc123">>
YoutubeLong == <<"https:", "/", "/", "www.youtube.com", "/", "watch", "?", "v", "=", "abc123", "&", "t", "=", "42">>
DirectUrl == <<"https:", "/", "/", "cdn.example", "/", "media", "/", "clip.mp4", "?", "sig", "=", "1">>

\* The references a user types into the URL field.
UrlInputs == {YoutubeShort, DirectUrl}

\* Tokens that contain the substring 'youtube.com' / 'youtu.be'.
ContainsYoutubeCom(tok) == tok \in {"youtube.com", "www.youtube.com", "m.youtube.com"}
ContainsYoutuBe(tok) == tok \in {"youtu.be"}

\* String.prototype.includes over the whole string.
IncludesYoutubeCom(url) == \E k \in 1..Len(url) : ContainsYoutubeCom(url[k])
IncludesYoutuBe(url) == \E k \in 1..Len(url) : ContainsYoutuBe(url[k])

IsYoutubeUrl(url) == IncludesYoutubeCom(url) \/ IncludesYoutuBe(url)

\* urlInput.trim() is empty.
TrimIsEmpty(url) == \A k \in 1..Len(url) : url[k] = " "

\* JavaScript truthiness of a string | null | undefined.
Truthy(str) == str # <<>> /\ str # Null /\ str # Undefined

\* a || b
OrElse(a, b) == IF Truthy(a) THEN a ELSE b

\* Index of the first token of s equal to tok, 0 if there is none.
IndexOf(s, tok) ==
  IF \E k \in 1..Len(s) : s[k] = tok
  THEN CHOOSE k \in 1..Len(s) : s[k] = tok /\ \A j \in 1..(k - 1) : s[j] # tok
  ELSE 0

\* Index of the last token of s equal to tok, 0 if there is none.
LastIndexOf(s, tok) ==
  IF \E k \in 1..Len(s) : s[k] = tok
  THEN CHOOSE k \in 1..Len(s) : s[k] = tok /\ \A j \in (k + 1)..Len(s) : s[j] # tok
  ELSE 0

\* new URL(url): parses when the string is scheme "//" host ...; throws otherwise.
UrlParses(url) ==
  /\ Len(url) >= 4
  /\ url[1] \in {"https:", "http:"}
  /\ url[2] = "/"
  /\ url[3] = "/"
  /\ url[4] \notin {"/", "?", "&", "="}

UrlHostname(url) == url[4]

\* What follows the host.
UrlAfterHost(url) == SubSeq(url, 5, Len(url))

\* Variant of UrlPathname: the query is kept.
UrlPathnameWithSearch(url) ==
  IF UrlAfterHost(url) = <<>> THEN <<"/">> ELSE UrlAfterHost(url)

\* urlObj.pathname: up to the query; "/" when the URL has no path.
UrlPathname(url) ==
  LET rest == UrlAfterHost(url)
      q == IndexOf(rest, "?")
      path == IF q = 0 THEN rest ELSE SubSeq(rest, 1, q - 1)
  IN IF path = <<>> THEN <<"/">> ELSE path

\* urlObj.search without its '?'.
UrlQuery(url) ==
  LET rest == UrlAfterHost(url)
      q == IndexOf(rest, "?")
  IN IF q = 0 THEN <<>> ELSE SubSeq(rest, q + 1, Len(rest))

\* URLSearchParams decoding of one token: '+' is a space and a percent-escape is
\* the character it stands for.
DecodeToken(tok) ==
  IF tok = "a%26b" THEN <<"a", "&", "b">>
  ELSE IF tok = "a%2Bb" THEN <<"a+b">>
  ELSE IF tok = "a+b" THEN <<"a b">>
  ELSE <<tok>>

\* URLSearchParams decoding of a value.
RECURSIVE DecodeComponent(_)
DecodeComponent(str) ==
  IF str = <<>> THEN <<>> ELSE DecodeToken(Head(str)) \o DecodeComponent(Tail(str))

\* urlObj.searchParams.get('v'): the decoded value of the first parameter named
\* v, or null.
RECURSIVE SearchParamV(_)
SearchParamV(query) ==
  IF query = <<>> THEN Null
  ELSE LET amp == IndexOf(query, "&")
           param == IF amp = 0 THEN query ELSE SubSeq(query, 1, amp - 1)
           rest == IF amp = 0 THEN <<>> ELSE SubSeq(query, amp + 1, Len(query))
       IN IF Len(param) >= 1 /\ param[1] = "v"
          THEN (IF Len(param) >= 2 /\ param[2] = "="
                THEN DecodeComponent(SubSeq(param, 3, Len(param)))
                ELSE <<>>)
          ELSE SearchParamV(rest)

WatchUrl(id) == <<"https:", "/", "/", "www.youtube.com", "/", "watch", "?", "v", "=">> \o id

\* Variant of CleanUrl: without the test of v.
CleanUrlUnguarded(url) ==
  IF ~UrlParses(url) THEN url
  ELSE IF UrlHostname(url) = "youtu.be"
       THEN WatchUrl(Tail(UrlPathname(url)))
       ELSE IF ContainsYoutubeCom(UrlHostname(url))
            THEN LET v == SearchParamV(UrlQuery(url))
                 IN WatchUrl(IF v = Null THEN <<"null">> ELSE v)
            ELSE url

\* resolveYoutubeUrl, step 1: the sanitized URL sent to the resolver instances.
CleanUrl(url) ==
  IF ~UrlParses(url) THEN url
  ELSE IF UrlHostname(url) = "youtu.be"
       THEN WatchUrl(Tail(UrlPathname(url)))
       ELSE IF ContainsYoutubeCom(UrlHostname(url))
            THEN LET v == SearchParamV(UrlQuery(url))
                 IN IF Truthy(v) THEN WatchUrl(v) ELSE url
            ELSE url

\* ------------------------------------------------- resolver backend replies
\* What one POST to a resolver instance can come back with.  net = FALSE: fetch
\* rejects.  parses = FALSE: response.json() rejects.  data is the parsed payload.
NoData == [status |-> Undefined, text |-> Undefined, url |-> Undefined, hasPicker |-> FALSE, picker |-> <<>>]
JsonType == <<"application/json">>
HtmlType == <<"text/html">>
StreamUrl == <<"https:", "/", "/", "cdn", "/", "x.mp4">>
PickerUrl == <<"https:", "/", "/", "cdn", "/", "picked.mp4">>
OtherPickerUrl == <<"https:", "/", "/", "cdn", "/", "later.mp4">>
AudioUrl == <<"https:", "/", "/", "cdn", "/", "sound.mp3">>

Reply(net, ctype, parses, data) == [net |-> net, ctype |-> ctype, parses |-> parses, data |-> data]
Payload(status, text, url) == [status |-> status, text |-> text, url |-> url, hasPicker |-> FALSE, picker |-> <<>>]
PickerPayload(items) == [status |-> <<"picker">>, text |-> Undefined, url |-> Undefined, hasPicker |-> TRUE, picker |-> items]
Item(type, url) == [type |-> type, url |-> url]

ResolverReplies == {
  Reply(FALSE, Null, FALSE, NoData),
  Reply(TRUE, Null, TRUE, Payload(<<"stream">>, Undefined, StreamUrl)),
  Reply(TRUE, HtmlType, FALSE, NoData),
  Reply(TRUE, HtmlType, TRUE, Payload(<<"stream">>, Undefined, StreamUrl)),
  Reply(TRUE, JsonType, FALSE, NoData),
  Reply(TRUE, JsonType, TRUE, Payload(<<"error">>, <<"video unavailable">>, Undefined)),
  Reply(TRUE, JsonType, TRUE, Payload(<<"error">>, Undefined, Undefined)),
  Reply(TRUE, JsonType, TRUE, PickerPayload(<<Item(<<"audio">>, AudioUrl), Item(<<"video">>, PickerUrl), Item(<<"video">>, OtherPickerUrl)>>)),
  Reply(TRUE, JsonType, TRUE, PickerPayload(<<Item(<<"audio">>, AudioUrl)>>)),
  Reply(TRUE, JsonType, TRUE, Payload(<<"picker">>, Undefined, Undefined)),
  Reply(TRUE, JsonType, TRUE, Payload(<<"stream">>, Undefined, StreamUrl)),
  Reply(TRUE, JsonType, TRUE, Payload(<<"stream">>, Undefined, Undefined)),
  Reply(TRUE, JsonType, TRUE, Payload(<<"redirect">>, Undefined, StreamUrl)),
  Reply(TRUE, JsonType, TRUE, Payload(<<"rate-limit">>, Undefined, Undefined))
}

\* contentType.includes('application/json')
IncludesJson(ctype) == \E k \in 1..Len(ctype) : ctype[k] \in {"application/json", "application/json; charset=utf-8"}

\* Variant of FindVideo: the last item whose type is video.
RECURSIVE FindLastVideo(_)
FindLastVideo(items) ==
  IF items = <<>> THEN NoValue
  ELSE IF FindLastVideo(Tail(items)) # NoValue THEN FindLastVideo(Tail(items))
  ELSE IF Head(items).type = <<"video">> THEN Head(items) ELSE NoValue

\* data.picker.find(p => p.type === 'video'): the first such item, or NoValue.
RECURSIVE FindVideo(_)
FindVideo(items) ==
  IF items = <<>> THEN NoValue
  ELSE IF Head(items).type = <<"video">> THEN Head(items) ELSE FindVideo(Tail(items))

Returned(url) == [ok |-> TRUE, url |-> url, err |-> Null]
Thrown(msg) == [ok |-> FALSE, url |-> Null, err |-> msg]

\* Variant of TryInstance: the body is parsed whatever the declared content type.
TryInstanceAnyType(reply) ==
  IF ~reply.net THEN Thrown(<<"TypeError: Failed to fetch">>)
  ELSE IF ~reply.parses THEN Thrown(<<"SyntaxError: Unexpected token">>)
  ELSE LET data == reply.data
       IN IF data.status = <<"error">>
          THEN Thrown(OrElse(data.text, <<"Resolver returned error">>))
          ELSE IF data.status = <<"picker">>
               THEN (IF ~data.hasPicker
                     THEN Thrown(<<"TypeError: Cannot read properties of undefined">>)
                     ELSE IF FindVideo(data.picker) # NoValue
                          THEN Returned(FindVideo(data.picker).url)
                          ELSE Thrown(<<"No video stream found in picker">>))
               ELSE IF data.status = <<"stream">> \/ data.status = <<"redirect">>
                    THEN Returned(data.url)
                    ELSE Thrown(<<"Unexpected response format">>)

\* resolveYoutubeUrl, the body of one iteration of its loop once the fetch has
\* settled: the value it returns, or the error its catch clause receives.
TryInstance(reply) ==
  IF ~reply.net THEN Thrown(<<"TypeError: Failed to fetch">>)
  ELSE IF reply.ctype = Null \/ ~IncludesJson(reply.ctype)
       THEN Thrown(<<"Invalid content-type: ">> \o (IF reply.ctype = Null THEN <<"null">> ELSE reply.ctype))
  ELSE IF ~reply.parses THEN Thrown(<<"SyntaxError: Unexpected token">>)
  ELSE LET data == reply.data
       IN IF data.status = <<"error">>
          THEN Thrown(OrElse(data.text, <<"Resolver returned error">>))
          ELSE IF data.status = <<"picker">>
               THEN (IF ~data.hasPicker
                     THEN Thrown(<<"TypeError: Cannot read properties of undefined">>)
                     ELSE IF FindVideo(data.picker) # NoValue
                          THEN Returned(FindVideo(data.picker).url)
                          ELSE Thrown(<<"No video stream found in picker">>))
               ELSE IF data.status = <<"stream">> \/ data.status = <<"redirect">>
                    THEN Returned(data.url)
                    ELSE Thrown(<<"Unexpected response format">>)

\* The error resolveYoutubeUrl throws after its loop.
ResolveFailedMessage == <<"Failed to resolve YouTube URL. The video might be restricted, or servers are busy. Please try again.">>

\* ----------------------------------------------------- download replies
\* What one GET of the media (direct or through a proxy) can come back with.
\* net = FALSE: fetch rejects.  blobOk = FALSE: res.blob() rejects.
Fetched(net, status, blobOk, type) == [net |-> net, status |-> status, blobOk |-> blobOk, type |-> type]
DownloadReplies == {
  Fetched(FALSE, 0, FALSE, <<>>),
  Fetched(TRUE, 404, TRUE, HtmlType),
  Fetched(TRUE, 200, FALSE, <<>>),
  Fetched(TRUE, 200, TRUE, <<"video/webm">>),
  Fetched(TRUE, 206, TRUE, <<>>)
}

\* Response.ok
ResOk(reply) == reply.status >= 200 /\ reply.status <= 299

StatusText(status) == IF status = 404 THEN "404" ELSE IF status = 200 THEN "200" ELSE IF status = 206 THEN "206" ELSE "0"

\* handleUrlSubmit, the proxied fetch of one iteration: the blob's type, or the
\* error the loop's catch clause receives.
TryProxy(reply) ==
  IF ~reply.net THEN Thrown(<<"TypeError: Failed to fetch">>)
  ELSE IF ~ResOk(reply) THEN Thrown(<<"Status ", StatusText(reply.status)>>)
  ELSE IF ~reply.blobOk THEN Thrown(<<"TypeError: Failed to read body">>)
  ELSE Returned(reply.type)

\* handleUrlSubmit, the direct fetch of the first iteration: TRUE when it ends the
\* loop with a blob; every failure is swallowed by its own try/catch.
DirectGivesBlob(reply) == reply.net /\ ResOk(reply) /\ reply.blobOk

\* encodeURIComponent(u), kept apart from u.
EncodeURIComponent(u) == <<"encoded">> \o u

\* proxyStrategies[k](u)
CreateProxy(k, u) ==
  IF k = 1 THEN <<"https://corsproxy.io/?">> \o EncodeURIComponent(u)
  ELSE IF k = 2 THEN <<"https://api.allorigins.win/raw?url=">> \o EncodeURIComponent(u)
  ELSE <<"https://thingproxy.freeboard.io/fetch/">> \o u

\* urlInput.split('/').pop()?.split('?')[0] || 'video.mp4'
DirectFileName(url) ==
  LET slash == LastIndexOf(url, "/")
      last == SubSeq(url, slash + 1, Len(url))
      q == IndexOf(last, "?")
      stem == IF q = 0 THEN last ELSE SubSeq(last, 1, q - 1)
  IN IF stem = <<>> THEN <<"video.mp4">> ELSE stem

\* Variant of FileName: the name is always taken from the URL.
FileNameFromUrl(isYT, url) == DirectFileName(url)

\* const fileName = isYT ? 'youtube_video.mp4' : (...)
FileName(isYT, url) == IF isYT THEN <<"youtube_video.mp4">> ELSE DirectFileName(url)

\* ------------------------------------------------ acquisitions in flight
\* One handleUrlSubmit call: where it is suspended (pc), its closure (url, isYT),
\* the locals of the loop it is in (i, lastError, fetchUrl), and the history of
\* the requests it has issued, each with how it ended; aborted records that the
\* user has reset App or loaded another file since the call began.
IdleSlot == [pc |-> "idle", url |-> <<>>, isYT |-> FALSE, i |-> 0,
             lastError |-> Undefined, fetchUrl |-> <<>>, calls |-> <<>>, progress |-> <<>>,
             aborted |-> FALSE]

\* One setDownloadStatus call: its text, and how many requests the acquisition
\* had issued when it was made.
Emitted(text, sent) == [text |-> text, sent |-> sent]

Call(kind, k, target) == [kind |-> kind, k |-> k, target |-> target, result |-> "pending"]

\* calls with its last (pending) request closed.
Closed(calls, result) ==
  [calls EXCEPT ![Len(calls)] = [@ EXCEPT !.result = result]]

\* An Error object: its message and its cause (undefined unless given).
ErrorOf(message) == [message |-> message, cause |-> Undefined]
NoError == [message |-> Null, cause |-> Undefined]

\* The history variable's value after a step.
Pre == [videoFile |-> videoFile, analysisStatus |-> analysisStatus, analysisResult |-> analysisResult]
\* failure: the error of the reply this step handled; thrown: the error that left
\* handleUrlSubmit's try block; logged: what console.error was given; calls and
\* progress: the requests and the setDownloadStatus calls of the acquisition so far.
Event(op, slot, settled, failure, thrown, logged, calls, progress) ==
  [op |-> op, slot |-> slot, settled |-> settled, failure |-> failure, thrown |-> thrown,
   logged |-> logged, calls |-> calls, progress |-> progress, pre |-> Pre]
Plain(op) == Event(op, 0, "no", Null, NoError, Undefined, <<>>, <<>>)

\* Variants of LoopStep: without the return of a resolved URL, with a resolution
\* that falls through to the download, and without the fallback.
LoopStepNoReturn(i, out) ==
  IF i < NumInstances THEN "continue" ELSE IF out.ok THEN "return" ELSE "throw"
LoopStepFallThrough(i, out) ==
  IF out.ok THEN "return" ELSE IF i < NumInstances THEN "continue" ELSE "return"
LoopStepGiveUp(i, out) == IF out.ok THEN "return" ELSE "throw"

\* resolveYoutubeUrl's loop after instance i ended with out: the function
\* returns, the loop continues with the next instance, or the loop ends and the
\* function throws.
LoopStep(i, out) ==
  IF out.ok THEN "return" ELSE IF i < NumInstances THEN "continue" ELSE "throw"

\* Variant of RecordFailure: the first failure is kept.
RecordFirstFailure(lastError, err) == IF lastError = Null THEN err ELSE lastError

\* resolveYoutubeUrl's catch clause: lastError after a failure.
RecordFailure(lastError, err) == err

\* resolveYoutubeUrl after its loop: what console.error receives, and the throw.
LoggedAfterLoop(lastError) == lastError
ThrownAfterLoop(lastError) == ErrorOf(ResolveFailedMessage)

\* Variant of DirectFirst: the direct fetch is tried for every source.
DirectFirstAlways(isYT, k) == k = 1

\* handleUrlSubmit's loop: the first iteration of a non-YouTube source starts
\* with a direct fetch.
DirectFirst(isYT, k) == ~isYT /\ k = 1

\* Variant of DirectStep: without the break.
DirectStepNoBreak(reply) == "proxy"

\* handleUrlSubmit's loop after the direct fetch: break with the blob, or go on
\* to the proxied fetch of the same iteration.
DirectStep(reply) == IF DirectGivesBlob(reply) THEN "break" ELSE "proxy"

\* Variant of ProxyStep: the first failure ends the loop.
ProxyStepAbort(k, out) == IF out.ok THEN "break" ELSE "exhausted"

\* handleUrlSubmit's loop after proxy k ended with out: break with the blob,
\* continue with the next proxy, or fall out of the loop without a blob.
ProxyStep(k, out) ==
  IF out.ok THEN "break" ELSE IF k < NumProxies THEN "continue" ELSE "exhausted"

\* handleUrlSubmit's catch clause in the loop: lastError after a failure.
RecordDownloadFailure(lastError, err) == err

\* Variant of ThrownWithoutBlob: without the detail.
ThrownWithoutDetail(lastError) == ErrorOf(<<"Failed to download video. ">>)

\* handleUrlSubmit after its loop: the throw when there is no blob.
ThrownWithoutBlob(lastError) ==
  ErrorOf(<<"Failed to download video. ">> \o (IF lastError = Undefined THEN <<>> ELSE lastError))

\* handleUrlSubmit's catch clause: the text given to setError.
ReportedError(thrown) == OrElse(thrown.message, <<"Could not download video. Please check the URL.">>)

\* new File([blob], fileName, { type: blob.type || 'video/mp4' }) as a VideoFile.
AcquiredFile(isYT, url, blobType) ==
  [name |-> FileName(isYT, url), type |-> OrElse(blobType, <<"video/mp4">>), from |-> "url"]

\* handleUrlSubmit: the text of the download status line.
DownloadingText(isYT) ==
  IF isYT THEN <<"Downloading video data (via Proxy)...">> ELSE <<"Downloading video...">>

\* handleUrlSubmit, finally: the acquisition's setDownloadStatus calls with the
\* last one, which clears the text.
Cleared(a, calls) == Append(acq[a].progress, Emitted(<<>>, Len(calls)))

\* handleUrlSubmit, from the download status line to the first fetch of the loop.
StartDownload(a, s, op) ==
  /\ downloadStatus' = DownloadingText(s.isYT)
  /\ LET first == IF DirectFirst(s.isYT, 1)
                  THEN Call("direct", 0, s.fetchUrl)
                  ELSE Call("proxy", 1, CreateProxy(1, s.fetchUrl))
         t == [s EXCEPT !.pc = first.kind, !.i = 1, !.lastError = Undefined,
                        !.progress = Append(s.progress, Emitted(DownloadingText(s.isYT), Len(s.calls))),
                        !.calls = Append(s.calls, first)]
     IN /\ acq' = [acq EXCEPT ![a] = t]
        /\ ev' = Event(op, a, "no", Null, NoError, Undefined, t.calls, t.progress)
  /\ UNCHANGED <<videoFile, analysisStatus, analysisResult, error, isDownloading>>

\* handleUrlSubmit, from the File construction to the end of finally.
SettleWithFile(a, s, calls, blobType, op) ==
  /\ videoFile' = AcquiredFile(s.isYT, s.url, blobType)
  /\ analysisStatus' = "IDLE"
  /\ analysisResult' = NoValue
  /\ isDownloading' = FALSE
  /\ downloadStatus' = <<>>
  /\ acq' = [acq EXCEPT ![a] = IdleSlot]
  /\ ev' = Event(op, a, "file", Null, NoError, Undefined, calls, Cleared(a, calls))
  /\ UNCHANGED error

\* Variant of SettleWithError: the failure also clears the media and its analysis.
SettleWithErrorClearing(a, calls, failure, thrown, logged, op) ==
  /\ error' = OrElse(thrown.message, <<"Could not download video. Please check the URL.">>)
  /\ isDownloading' = FALSE
  /\ downloadStatus' = <<>>
  /\ acq' = [acq EXCEPT ![a] = IdleSlot]
  /\ ev' = Event(op, a, "error", failure, thrown, logged, calls, Cleared(a, calls))
  /\ videoFile' = NoValue
  /\ analysisStatus' = "IDLE"
  /\ analysisResult' = NoValue

\* handleUrlSubmit, catch and finally.
SettleWithError(a, calls, failure, thrown, logged, op) ==
  /\ error' = ReportedError(thrown)
  /\ isDownloading' = FALSE
  /\ downloadStatus' = <<>>
  /\ acq' = [acq EXCEPT ![a] = IdleSlot]
  /\ ev' = Event(op, a, "error", failure, thrown, logged, calls, Cleared(a, calls))
  /\ UNCHANGED <<videoFile, analysisStatus, analysisResult>>

\* The form's submit button is rendered and enabled.
CanSubmit == videoFile = NoValue /\ activeTab = "url" /\ ~isDownloading /\ urlInput # <<>>

\* Variant of HandleUrlSubmit: the list of resolver instances is walked with a
\* cursor that the acquisitions share, so a new acquisition of a YouTube link
\* starts at the instance another acquisition is waiting for.
HandleUrlSubmitSharedCursor(a) ==
  /\ CanSubmit
  /\ ~TrimIsEmpty(urlInput)
  /\ acq[a].pc = "idle"
  /\ \A b \in Slots : b < a => acq[b].pc # "idle"
  /\ isDownloading' = TRUE
  /\ error' = Null
  /\ LET s == [IdleSlot EXCEPT !.url = urlInput, !.isYT = IsYoutubeUrl(urlInput), !.fetchUrl = urlInput]
         others == {acq[b].i : b \in {c \in Slots : acq[c].pc = "resolver"}}
         cursor == IF others = {} THEN 1 ELSE CHOOSE i \in others : \A j \in others : j <= i
     IN IF s.isYT
        THEN LET t == [s EXCEPT !.pc = "resolver", !.i = cursor, !.lastError = Null,
                                !.progress = <<Emitted(<<"Initializing...">>, 0),
                                               Emitted(<<"Resolving YouTube stream...">>, 0)>>,
                                !.calls = <<Call("resolver", cursor, CleanUrl(s.url))>>]
             IN /\ downloadStatus' = <<"Resolving YouTube stream...">>
                /\ acq' = [acq EXCEPT ![a] = t]
                /\ ev' = Event("submit", a, "no", Null, NoError, Undefined, t.calls, t.progress)
        ELSE /\ downloadStatus' = DownloadingText(FALSE)
             /\ LET t == [s EXCEPT !.pc = "direct", !.i = 1,
                                   !.progress = <<Emitted(<<"Initializing...">>, 0),
                                                  Emitted(DownloadingText(FALSE), 0)>>,
                                   !.calls = <<Call("direct", 0, s.fetchUrl)>>]
                IN /\ acq' = [acq EXCEPT ![a] = t]
                   /\ ev' = Event("submit", a, "no", Null, NoError, Undefined, t.calls, t.progress)
  /\ UNCHANGED <<videoFile, analysisStatus, analysisResult, progressMessage, activeTab, urlInput, analyses>>
  /\ UNCHANGED <<playerVars, unitVars>>

\* handleUrlSubmit up to its first await: the first resolver request for a
\* YouTube link, the first download request otherwise.
HandleUrlSubmit(a) ==
  /\ CanSubmit
  /\ ~TrimIsEmpty(urlInput)
  /\ acq[a].pc = "idle"
  /\ \A b \in Slots : b < a => acq[b].pc # "idle"
  /\ isDownloading' = TRUE
  /\ error' = Null
  /\ LET s == [IdleSlot EXCEPT !.url = urlInput, !.isYT = IsYoutubeUrl(urlInput), !.fetchUrl = urlInput]
     IN IF s.isYT
        THEN LET t == [s EXCEPT !.pc = "resolver", !.i = 1, !.lastError = Null,
                                !.progress = <<Emitted(<<"Initializing...">>, 0),
                                               Emitted(<<"Resolving YouTube stream...">>, 0)>>,
                                !.calls = <<Call("resolver", 1, CleanUrl(s.url))>>]
             IN /\ downloadStatus' = <<"Resolving YouTube stream...">>
                /\ acq' = [acq EXCEPT ![a] = t]
                /\ ev' = Event("submit", a, "no", Null, NoError, Undefined, t.calls, t.progress)
        ELSE /\ downloadStatus' = DownloadingText(FALSE)
             /\ LET t == [s EXCEPT !.pc = "direct", !.i = 1,
                                   !.progress = <<Emitted(<<"Initializing...">>, 0),
                                                  Emitted(DownloadingText(FALSE), 0)>>,
                                   !.calls = <<Call("direct", 0, s.fetchUrl)>>]
                IN /\ acq' = [acq EXCEPT ![a] = t]
                   /\ ev' = Event("submit", a, "no", Null, NoError, Undefined, t.calls, t.progress)
  /\ UNCHANGED <<videoFile, analysisStatus, analysisResult, progressMessage, activeTab, urlInput, analyses>>
  /\ UNCHANGED <<playerVars, unitVars>>

\* <video src={src}>: VideoPlayer stays mounted when App gives it another file,
\* so its state is kept; the element loads the new source, which puts its play
\* head at 0 and its playbackRate at the default rate.
SourceLoaded ==
  /\ IF videoFile # NoValue /\ videoFile' # videoFile
     THEN videoTime' = 0 /\ videoRate' = BaseRate
     ELSE UNCHANGED <<videoTime, videoRate>>
  /\ UNCHANGED <<currentTime, playbackRate, smartSkipEnabled, isSkipping, skipReason, resetTimers>>

\* What the history records of a reply: whether the request got what it asked for.
ResolverGave(reply) == IF TryInstance(reply).ok THEN "ok" ELSE "failed"
DownloadGave(reply) ==
  IF reply.net /\ reply.status >= 200 /\ reply.status <= 299 /\ reply.blobOk THEN "ok" ELSE "failed"

\* resolveYoutubeUrl resumed by the reply of instance i, up to the next await
\* (the next instance, the first download request) or to the end of handleUrlSubmit.
ResolverReply(a, reply) ==
  /\ acq[a].pc = "resolver"
  /\ LET s == acq[a]
         out == TryInstance(reply)
         step == LoopStep(s.i, out)
         done == Closed(s.calls, ResolverGave(reply))
         last == IF out.ok THEN s.lastError ELSE RecordFailure(s.lastError, out.err)
     IN IF step = "return"
        THEN StartDownload(a, [s EXCEPT !.fetchUrl = out.url, !.calls = done], "resolverReply")
        ELSE IF step = "continue"
             THEN /\ acq' = [acq EXCEPT ![a] = [s EXCEPT !.i = s.i + 1, !.lastError = last,
                               !.calls = Append(done, Call("resolver", s.i + 1, CleanUrl(s.url)))]]
                  /\ ev' = Event("resolverReply", a, "no", out.err, NoError, Undefined, acq'[a].calls, s.progress)
                  /\ UNCHANGED <<videoFile, analysisStatus, analysisResult, error, isDownloading, downloadStatus>>
             ELSE SettleWithError(a, done, out.err, ThrownAfterLoop(last), LoggedAfterLoop(last), "resolverReply")
  /\ UNCHANGED <<progressMessage, activeTab, urlInput, analyses>>
  /\ SourceLoaded
  /\ UNCHANGED unitVars

\* handleUrlSubmit resumed by the reply of the direct fetch.
DirectReply(a, reply) ==
  /\ acq[a].pc = "direct"
  /\ LET s == acq[a]
         done == Closed(s.calls, DownloadGave(reply))
     IN IF DirectStep(reply) = "break"
        THEN SettleWithFile(a, s, done, reply.type, "directReply")
        ELSE LET t == [s EXCEPT !.pc = "proxy", !.i = 1,
                                !.calls = Append(done, Call("proxy", 1, CreateProxy(1, s.fetchUrl)))]
             IN /\ acq' = [acq EXCEPT ![a] = t]
                /\ ev' = Event("directReply", a, "no", Null, NoError, Undefined, t.calls, t.progress)
                /\ UNCHANGED <<videoFile, analysisStatus, analysisResult, error, isDownloading, downloadStatus>>
  /\ UNCHANGED <<progressMessage, activeTab, urlInput, analyses>>
  /\ SourceLoaded
  /\ UNCHANGED unitVars

\* handleUrlSubmit resumed by the reply of proxy i.
ProxyReply(a, reply) ==
  /\ acq[a].pc = "proxy"
  /\ LET s == acq[a]
         out == TryProxy(reply)
         step == ProxyStep(s.i, out)
         done == Closed(s.calls, DownloadGave(reply))
         last == IF out.ok THEN s.lastError ELSE RecordDownloadFailure(s.lastError, out.err)
     IN IF step = "break"
        THEN SettleWithFile(a, s, done, out.url, "proxyReply")
        ELSE IF step = "continue"
             THEN /\ acq' = [acq EXCEPT ![a] = [s EXCEPT !.i = s.i + 1, !.lastError = last,
                               !.calls = Append(done, Call("proxy", s.i + 1, CreateProxy(s.i + 1, s.fetchUrl)))]]
                  /\ ev' = Event("proxyReply", a, "no", out.err, NoError, Undefined, acq'[a].calls, s.progress)
                  /\ UNCHANGED <<videoFile, analysisStatus, analysisResult, error, isDownloading, downloadStatus>>
             ELSE SettleWithError(a, done, out.err, ThrownWithoutBlob(last), Undefined, "proxyReply")
  /\ UNCHANGED <<progressMessage, activeTab, urlInput, analyses>>
  /\ SourceLoaded
  /\ UNCHANGED unitVars

\* ------------------------------------------------------ VideoPlayer
\* The speed buttons: 1.0, 1.5, 2.0.
Speeds == {10, 15, 20}

Segment(start, end, reason) == [start |-> start, end |-> end, reason |-> reason]

\* Segment lists the analysis may deliver: overlapping (in and out of time order),
\* adjacent, with an inverted or an empty interval, and none.
SegmentLists == {
  <<>>,
  <<Segment(0, 2, <<"A">>), Segment(1, 3, <<"B">>)>>,
  <<Segment(1, 3, <<"B">>), Segment(0, 2, <<"A">>)>>,
  <<Segment(0, 1, <<"A">>), Segment(1, 2, <<"B">>)>>,
  <<Segment(3, 1, <<"X">>), Segment(1, 2, <<"A">>)>>,
  <<Segment(2, 2, <<"E">>), Segment(2, 4, <<"B">>)>>
}

\* The skipSegments prop App passes to VideoPlayer.
skipSegments == IF analysisResult = NoValue THEN <<>> ELSE analysisResult.segments

\* Variant of Inside: the bounds of the interval are taken in either order.
InsideUnordered(time, seg) ==
  \/ time >= seg.start /\ time < seg.end
  \/ time >= seg.end /\ time < seg.start

\* Variant of Inside: the interval is closed.
InsideClosed(time, seg) == time >= seg.start /\ time <= seg.end

\* The predicate of handleTimeUpdate's find.
Inside(time, seg) == time >= seg.start /\ time < seg.end

\* Variant of FindSegment: the last segment that holds the position.
RECURSIVE FindLastSegment(_, _)
FindLastSegment(segs, time) ==
  IF segs = <<>> THEN NoValue
  ELSE LET later == FindLastSegment(Tail(segs), time)
       IN IF later # NoValue THEN later
          ELSE IF time >= Head(segs).start /\ time < Head(segs).end THEN Head(segs) ELSE NoValue

\* skipSegments.find(seg => time >= seg.start && time < seg.end), NoValue when
\* find returns undefined.
RECURSIVE FindSegment(_, _)
FindSegment(segs, time) ==
  IF segs = <<>> THEN NoValue
  ELSE IF Inside(time, Head(segs)) THEN Head(segs) ELSE FindSegment(Tail(segs), time)

\* The state of a VideoPlayer that has just been mounted.
Mounted ==
  /\ currentTime = 0
  /\ playbackRate = BaseRate
  /\ smartSkipEnabled = FALSE
  /\ isSkipping = FALSE
  /\ skipReason = Null
  /\ videoTime = 0
  /\ videoRate = BaseRate
  /\ resetTimers = 0

\* App stops rendering VideoPlayer: its state is discarded, and the callbacks
\* still pending set state on nothing.
Unmounted ==
  /\ currentTime' = 0
  /\ playbackRate' = BaseRate
  /\ smartSkipEnabled' = FALSE
  /\ isSkipping' = FALSE
  /\ skipReason' = Null
  /\ videoTime' = 0
  /\ videoRate' = BaseRate
  /\ resetTimers' = 0

\* VideoPlayer is rendered, so videoRef.current is set.
HasVideo == videoFile # NoValue

\* Playback moves the play head forward.
Play ==
  /\ HasVideo
  /\ videoTime < MaxTime
  /\ videoTime' = videoTime + 1
  /\ ev' = Plain("play")
  /\ UNCHANGED <<appVars, unitVars, acq, analyses, currentTime, playbackRate, smartSkipEnabled,
                 isSkipping, skipReason, videoRate, resetTimers>>

\* handleSeek: a click on the progress bar puts the play head at pos.
HandleSeek(pos) ==
  /\ HasVideo
  /\ videoTime' = pos
  /\ ev' = Plain("seek")
  /\ UNCHANGED <<appVars, unitVars, acq, analyses, currentTime, playbackRate, smartSkipEnabled,
                 isSkipping, skipReason, videoRate, resetTimers>>

\* Where the play head ends when a jump is repeated for as long as the target
\* lies in a segment.
RECURSIVE ChainEnd(_, _, _)
ChainEnd(segs, time, fuel) ==
  IF fuel = 0 \/ FindSegment(segs, time) = NoValue THEN time
  ELSE ChainEnd(segs, FindSegment(segs, time).end, fuel - 1)

\* Variant of HandleTimeUpdate: the jump is repeated within one notification.
HandleTimeUpdateChained ==
  /\ HasVideo
  /\ LET time == videoTime
         currentSegment == IF smartSkipEnabled /\ Len(skipSegments) > 0
                           THEN FindSegment(skipSegments, time)
                           ELSE NoValue
     IN /\ currentTime' = time
        /\ IF currentSegment # NoValue
           THEN /\ resetTimers < MaxTimers
                /\ isSkipping' = TRUE
                /\ skipReason' = currentSegment.reason
                /\ videoTime' = ChainEnd(skipSegments, currentSegment.end, Len(skipSegments))
                /\ resetTimers' = resetTimers + 1
           ELSE UNCHANGED <<isSkipping, skipReason, videoTime, resetTimers>>
  /\ ev' = Plain("timeUpdate")
  /\ UNCHANGED <<appVars, unitVars, acq, analyses, playbackRate, smartSkipEnabled, videoRate>>

\* Variant of HandleTimeUpdate: segments are skipped whether or not skipping is
\* enabled.
HandleTimeUpdateAlways ==
  /\ HasVideo
  /\ LET time == videoTime
         currentSegment == IF Len(skipSegments) > 0
                           THEN FindSegment(skipSegments, time)
                           ELSE NoValue
     IN /\ currentTime' = time
        /\ IF currentSegment # NoValue
           THEN /\ resetTimers < MaxTimers
                /\ isSkipping' = TRUE
                /\ skipReason' = currentSegment.reason
                /\ videoTime' = currentSegment.end
                /\ resetTimers' = resetTimers + 1
           ELSE UNCHANGED <<isSkipping, skipReason, videoTime, resetTimers>>
  /\ ev' = Plain("timeUpdate")
  /\ UNCHANGED <<appVars, unitVars, acq, analyses, playbackRate, smartSkipEnabled, videoRate>>

\* Variant of HandleTimeUpdate: the jump is made and shown, and no reset of the
\* feedback is scheduled.
HandleTimeUpdateNoReset ==
  /\ HasVideo
  /\ LET time == videoTime
         currentSegment == IF smartSkipEnabled /\ Len(skipSegments) > 0
                           THEN FindSegment(skipSegments, time)
                           ELSE NoValue
     IN /\ currentTime' = time
        /\ IF currentSegment # NoValue
           THEN /\ isSkipping' = TRUE
                /\ skipReason' = currentSegment.reason
                /\ videoTime' = currentSegment.end
           ELSE UNCHANGED <<isSkipping, skipReason, videoTime>>
  /\ UNCHANGED resetTimers
  /\ ev' = Plain("timeUpdate")
  /\ UNCHANGED <<appVars, unitVars, acq, analyses, playbackRate, smartSkipEnabled, videoRate>>

\* handleTimeUpdate: the video element's timeupdate event.
HandleTimeUpdate ==
  /\ HasVideo
  /\ LET time == videoTime
         currentSegment == IF smartSkipEnabled /\ Len(skipSegments) > 0
                           THEN FindSegment(skipSegments, time)
                           ELSE NoValue
     IN /\ currentTime' = time
        /\ IF currentSegment # NoValue
           THEN /\ resetTimers < MaxTimers
                /\ isSkipping' = TRUE
                /\ skipReason' = currentSegment.reason
                /\ videoTime' = currentSegment.end
                /\ resetTimers' = resetTimers + 1
           ELSE UNCHANGED <<isSkipping, skipReason, videoTime, resetTimers>>
  /\ ev' = Plain("timeUpdate")
  /\ UNCHANGED <<appVars, unitVars, acq, analyses, playbackRate, smartSkipEnabled, videoRate>>

\* The callback handleTimeUpdate gave to setTimeout.
SkipFeedbackReset ==
  /\ resetTimers > 0
  /\ resetTimers' = resetTimers - 1
  /\ isSkipping' = FALSE
  /\ skipReason' = Null
  /\ ev' = Plain("feedbackReset")
  /\ UNCHANGED <<appVars, unitVars, acq, analyses, currentTime, playbackRate, smartSkipEnabled,
                 videoTime, videoRate>>

\* changeSpeed: one of the speed buttons.
ChangeSpeed(speed) ==
  /\ HasVideo
  /\ playbackRate' = speed
  /\ videoRate' = speed
  /\ ev' = Plain("changeSpeed")
  /\ UNCHANGED <<appVars, unitVars, acq, analyses, currentTime, smartSkipEnabled, isSkipping,
                 skipReason, videoTime, resetTimers>>

\* toggleSmartSkip: the Skip Filler button.
ToggleSmartSkip ==
  /\ HasVideo
  /\ smartSkipEnabled' = ~smartSkipEnabled
  /\ ev' = Plain("toggleSmartSkip")
  /\ UNCHANGED <<appVars, unitVars, acq, analyses, currentTime, playbackRate, isSkipping,
                 skipReason, videoTime, videoRate, resetTimers>>

\* isTurboActive
IsTurbo == playbackRate = TurboRate /\ smartSkipEnabled

\* Variant of ToggleSmartTurbo: the button only activates.
ActivateSmartTurbo ==
  /\ HasVideo
  /\ playbackRate' = TurboRate
  /\ smartSkipEnabled' = TRUE
  /\ videoRate' = TurboRate
  /\ ev' = Plain("toggleSmartTurbo")
  /\ UNCHANGED <<appVars, unitVars, acq, analyses, currentTime, isSkipping, skipReason,
                 videoTime, resetTimers>>

\* toggleSmartTurbo: the Smart x2 button.
ToggleSmartTurbo ==
  /\ HasVideo
  /\ IF IsTurbo
     THEN /\ playbackRate' = BaseRate
          /\ smartSkipEnabled' = FALSE
          /\ videoRate' = BaseRate
     ELSE /\ playbackRate' = TurboRate
          /\ smartSkipEnabled' = TRUE
          /\ videoRate' = TurboRate
  /\ ev' = Plain("toggleSmartTurbo")
  /\ UNCHANGED <<appVars, unitVars, acq, analyses, currentTime, isSkipping, skipReason,
                 videoTime, resetTimers>>

\* The mode of the skip engine, read off the player's state.
Mode == IF ~smartSkipEnabled THEN "OFF" ELSE IF playbackRate = TurboRate THEN "TURBO" ELSE "SKIP_ONLY"

\* ------------------------------------------------------ the rest of App
UploadedFiles == {[name |-> <<"talk.mp4">>, type |-> <<"video/mp4">>, from |-> "upload"]}

\* The analysis of a file: the segments the service finds in it.
AnalysisOf(file) == [summary |-> <<"summary of ">> \o file.name, segments |-> <<>>]

\* onChange of the URL field.
SetUrlInput(u) ==
  /\ videoFile = NoValue /\ activeTab = "url"
  /\ urlInput # u
  /\ urlInput' = u
  /\ ev' = Plain("setUrlInput")
  /\ UNCHANGED <<videoFile, analysisStatus, analysisResult, error, progressMessage, activeTab,
                 isDownloading, downloadStatus, acq, analyses>>
  /\ UNCHANGED <<playerVars, unitVars>>

\* The two tab buttons.
SetActiveTab(tab) ==
  /\ videoFile = NoValue
  /\ activeTab # tab
  /\ activeTab' = tab
  /\ ev' = Plain("setActiveTab")
  /\ UNCHANGED <<videoFile, analysisStatus, analysisResult, error, progressMessage, urlInput,
                 isDownloading, downloadStatus, acq, analyses>>
  /\ UNCHANGED <<playerVars, unitVars>>

\* The handleUrlSubmit calls in flight go on after the user has loaded a file or
\* reset App: nothing cancels them.
LeftRunning ==
  [a \in Slots |-> IF acq[a].pc # "idle" THEN [acq[a] EXCEPT !.aborted = TRUE] ELSE acq[a]]

\* handleFileUpload: onChange of the file field.
HandleFileUpload(file) ==
  /\ videoFile = NoValue /\ activeTab = "upload"
  /\ videoFile' = file
  /\ analysisStatus' = "IDLE"
  /\ analysisResult' = NoValue
  /\ error' = Null
  /\ acq' = LeftRunning
  /\ ev' = Plain("upload")
  /\ UNCHANGED <<progressMessage, activeTab, urlInput, isDownloading, downloadStatus, analyses>>
  /\ UNCHANGED <<playerVars, unitVars>>

\* Variant of HandleReset: the analysis of the cleared video is kept.
HandleResetKeepingResult ==
  /\ videoFile # NoValue
  /\ videoFile' = NoValue
  /\ analysisStatus' = "IDLE"
  /\ error' = Null
  /\ urlInput' = <<>>
  /\ isDownloading' = FALSE
  /\ progressMessage' = <<>>
  /\ Unmounted
  /\ acq' = LeftRunning
  /\ ev' = Plain("reset")
  /\ UNCHANGED <<analysisResult, activeTab, downloadStatus, analyses, unitVars>>

\* handleReset: the Change Video button.
HandleReset ==
  /\ videoFile # NoValue
  /\ videoFile' = NoValue
  /\ analysisStatus' = "IDLE"
  /\ analysisResult' = NoValue
  /\ error' = Null
  /\ urlInput' = <<>>
  /\ isDownloading' = FALSE
  /\ progressMessage' = <<>>
  /\ Unmounted
  /\ acq' = LeftRunning
  /\ ev' = Plain("reset")
  /\ UNCHANGED <<activeTab, downloadStatus, analyses, unitVars>>

\* startAnalysis up to the first await of analyzeVideoContent.
StartAnalysis ==
  /\ videoFile # NoValue /\ analysisStatus = "IDLE"
  /\ Cardinality(analyses) < MaxAnalyses
  /\ videoFile \notin analyses
  /\ analysisStatus' = "ANALYZING"
  /\ progressMessage' = <<"Encoding video data...">>
  /\ error' = Null
  /\ analyses' = analyses \cup {videoFile}
  /\ ev' = Plain("startAnalysis")
  /\ UNCHANGED <<videoFile, analysisResult, activeTab, urlInput, isDownloading, downloadStatus, acq>>
  /\ UNCHANGED <<playerVars, unitVars>>

\* startAnalysis resumed by the end of analyzeVideoContent.
AnalysisDone(file, ok) ==
  /\ file \in analyses
  /\ analyses' = analyses \ {file}
  /\ IF ok
     THEN /\ analysisResult' = AnalysisOf(file)
          /\ analysisStatus' = "COMPLETED"
          /\ UNCHANGED error
     ELSE /\ error' = <<"No response from AI">>
          /\ analysisStatus' = "ERROR"
          /\ UNCHANGED analysisResult
  /\ ev' = Plain("analysisDone")
  /\ UNCHANGED <<videoFile, progressMessage, activeTab, urlInput, isDownloading, downloadStatus, acq>>
  /\ UNCHANGED <<playerVars, unitVars>>

\* ------------------------------------- resolveYoutubeUrl, the sanitize step
\* The strings the sanitize step is applied to: with and without a scheme, on
\* the short host, the long hosts and another host, with a path and a query.
Schemes == {<<"https:", "/", "/">>, <<"http:", "/", "/">>, <<>>}
Hosts == {"youtu.be", "www.youtube.com", "m.youtube.com", "cdn.example"}
\* Video identifiers: letters, digits, '-' and '_'.
VideoIds == {<<"abc123">>, <<"a-b_c">>}
\* Other strings in the place of an identifier.
OddIds == {<<"a", "&", "b">>, <<"a+b">>, <<"a%26b">>, <<"a%2Bb">>, <<"a", "/", "b">>}
Paths == {<<>>, <<"/">>, <<"/", "watch">>, <<"/", "embed", "/", "abc123">>}
           \cup {<<"/">> \o id : id \in VideoIds \cup OddIds}
VParam(id) == <<"v", "=">> \o id
ExtraParams == {<<"t", "=", "42">>, <<"feature">>}
Params == {VParam(id) : id \in VideoIds \cup {<<"a%26b">>}} \cup {<<"v">>, <<"v", "=">>} \cup ExtraParams

RECURSIVE ParamLists(_, _)
ParamLists(set, n) ==
  IF n = 0 THEN {<<>>}
  ELSE ParamLists(set, n - 1) \cup {Append(ps, p) : ps \in ParamLists(set, n - 1), p \in set}

RECURSIVE JoinParams(_)
JoinParams(ps) ==
  IF ps = <<>> THEN <<>>
  ELSE IF Len(ps) = 1 THEN ps[1]
  ELSE ps[1] \o <<"&">> \o JoinParams(Tail(ps))

QueryOf(ps) == IF ps = <<>> THEN <<>> ELSE <<"?">> \o JoinParams(ps)

NormInputs ==
  {s \o <<h>> \o path \o QueryOf(ps) :
     s \in Schemes, h \in Hosts, path \in Paths, ps \in ParamLists(Params, MaxParams)}

\* resolveYoutubeUrl up to its loop: cleanUrl is the sanitized url.
Sanitize ==
  /\ ev.op # "sanitize"
  /\ cleanUrl' = CleanUrl(rawUrl)
  /\ ev' = Plain("sanitize")
  /\ UNCHANGED <<appVars, playerVars, acq, analyses, rawUrl, job>>

\* resolveYoutubeUrl is called again, with the link it sanitized.
SanitizeAgain ==
  /\ ev.op = "sanitize"
  /\ rawUrl # cleanUrl
  /\ rawUrl' = cleanUrl
  /\ ev' = Plain("callAgain")
  /\ UNCHANGED <<appVars, playerVars, acq, analyses, cleanUrl, job>>

\* --------------------------------------------------- analyzeVideoContent
\* File sizes in MB: below, at and above the limit of inline data.
InlineLimit == 20
FileSizes == {19, 20, 21, 200}
\* The types of the files the file field accepts (video/*, audio/*).
FileTypes == {<<"video/mp4">>, <<"audio/mpeg">>}
MediaFiles == {[size |-> size, type |-> type] : size \in FileSizes, type \in FileTypes}
\* contentPart: not yet assigned, inline data, or the data of an uploaded file.
NoPart == [kind |-> "none", mimeType |-> Undefined]

\* The states a file of the Files API is reported in; Undefined when the reply
\* carries none.
HandleStates == {<<"PROCESSING">>, <<"ACTIVE">>, <<"FAILED">>, Undefined}

\* ai.files.upload and ai.files.get: the request rejects, or resolves to a file
\* in one of the states.
HandleReplies == {[ok |-> FALSE, state |-> Undefined]} \cup {[ok |-> TRUE, state |-> st] : st \in HandleStates}

\* ai.models.generateContent: the request rejects, or resolves to a response
\* whose text is empty, is not JSON, or is the JSON of a result.
GenerateReplies == {"rejected", "empty", "malformed", "json"}

\* analyzeVideoContent is not running.
IdleJob ==
  [pc |-> "idle", file |-> [size |-> 0, type |-> <<>>], state |-> Undefined, polls |-> 0,
   part |-> NoPart, generated |-> FALSE, outcome |-> "none", message |-> Null, progress |-> <<>>]

\* `${state}` in a template string.
StateText(state) == IF state = Undefined THEN <<"undefined">> ELSE state

\* analyzeVideoContent: the outer catch of the large-file branch rethrows.
UploadFailed(j, message) ==
  [j EXCEPT !.pc = "done", !.outcome = "error",
            !.message = <<"Failed to upload large video. ">> \o OrElse(message, <<"Unknown error">>)]

\* analyzeVideoContent throws err out of the function as it is.
Failed(j, message) == [j EXCEPT !.pc = "done", !.outcome = "error", !.message = message]

\* analyzeVideoContent from the progress call before the prompt to the await of
\* generateContent.
Generating(j) ==
  [j EXCEPT !.pc = "generate", !.generated = TRUE,
            !.part = [kind |-> IF j.file.size > InlineLimit THEN "fileData" ELSE "inlineData",
                      mimeType |-> j.file.type],
            !.progress = <<"Analyzing content for fluff and silence...">>]

\* Variant of HandleStep: every state but PROCESSING is taken as ready.
HandleStepUnchecked(state) ==
  IF state = <<"PROCESSING">> THEN "poll" ELSE "proceed"

\* analyzeVideoContent with the state of the file in hand: the while test and
\* the test that follows the loop.
HandleStep(state) ==
  IF state = <<"PROCESSING">> THEN "poll"
  ELSE IF state # <<"ACTIVE">> THEN "throw"
  ELSE "proceed"

\* analyzeVideoContent from the while test to its next await, or to its throw.
AfterHandle(j, state) ==
  LET k == [j EXCEPT !.state = state]
  IN IF HandleStep(state) = "poll"
     THEN [k EXCEPT !.pc = "sleep", !.progress = <<"Processing video on server...">>]
     ELSE IF HandleStep(state) = "throw"
          THEN UploadFailed(k, <<"Video processing failed on server. State: ">> \o StateText(state))
          ELSE Generating(k)

\* analyzeVideoContent(file, onProgress) up to its first await: the upload of a
\* file above the limit, the encoding of any other.
AnalyzeVideoContent(file) ==
  /\ job.pc \in {"idle", "done"}
  /\ job' = IF file.size > InlineLimit
            THEN [IdleJob EXCEPT !.pc = "upload", !.file = file,
                    !.progress = <<"Uploading large video to Gemini (this bypasses size limits)...">>]
            ELSE [IdleJob EXCEPT !.pc = "encode", !.file = file,
                    !.progress = <<"Encoding video data...">>]
  /\ ev' = Plain("analyze")
  /\ UNCHANGED <<appVars, playerVars, normVars, acq, analyses>>

\* analyzeVideoContent resumed by the end of ai.files.upload.
UploadReply(reply) ==
  /\ job.pc = "upload"
  /\ job' = IF reply.ok THEN AfterHandle(job, reply.state)
            ELSE UploadFailed(job, <<"upload rejected">>)
  /\ ev' = Plain("uploadReply")
  /\ UNCHANGED <<appVars, playerVars, normVars, acq, analyses>>

\* analyzeVideoContent resumed by the timer of 2000 ms: it asks for the file.
PollTimer ==
  /\ job.pc = "sleep"
  /\ job' = [job EXCEPT !.pc = "get", !.polls = IF @ < MaxPolls THEN @ + 1 ELSE @]
  /\ ev' = Plain("pollTimer")
  /\ UNCHANGED <<appVars, playerVars, normVars, acq, analyses>>

\* analyzeVideoContent resumed by the end of ai.files.get.
GetReply(reply) ==
  /\ job.pc = "get"
  /\ job' = IF reply.ok THEN AfterHandle(job, reply.state)
            ELSE UploadFailed(job, <<"get rejected">>)
  /\ ev' = Plain("getReply")
  /\ UNCHANGED <<appVars, playerVars, normVars, acq, analyses>>

\* analyzeVideoContent resumed by the end of fileToGenerativePart.
EncodeDone(ok) ==
  /\ job.pc = "encode"
  /\ job' = IF ok THEN Generating(job) ELSE Failed(job, Undefined)
  /\ ev' = Plain("encodeDone")
  /\ UNCHANGED <<appVars, playerVars, normVars, acq, analyses>>

\* analyzeVideoContent resumed by the end of generateContent.
GenerateReply(reply) ==
  /\ job.pc = "generate"
  /\ job' = IF reply = "json" THEN [job EXCEPT !.pc = "done", !.outcome = "result"]
            ELSE IF reply = "empty" THEN Failed(job, <<"No response from AI">>)
            ELSE IF reply = "malformed" THEN Failed(job, <<"SyntaxError: Unexpected token">>)
            ELSE Failed(job, <<"generateContent rejected">>)
  /\ ev' = Plain("generateReply")
  /\ UNCHANGED <<appVars, playerVars, normVars, acq, analyses>>

\* ------------------------------------------------------- specification
InitApp ==
  /\ videoFile = NoValue
  /\ analysisStatus = "IDLE"
  /\ analysisResult = NoValue
  /\ error = Null
  /\ progressMessage = <<>>
  /\ activeTab = "upload"
  /\ urlInput = <<>>
  /\ isDownloading = FALSE
  /\ downloadStatus = <<>>
  /\ acq = [a \in Slots |-> IdleSlot]
  /\ analyses = {}
  /\ rawUrl = <<>>
  /\ cleanUrl = <<>>
  /\ job = IdleJob
  /\ Mounted
  /\ ev = [op |-> "init", slot |-> 0, settled |-> "no", failure |-> Null, thrown |-> NoError, logged |-> Undefined,
           calls |-> <<>>, progress |-> <<>>,
           pre |-> [videoFile |-> NoValue, analysisStatus |-> "IDLE", analysisResult |-> NoValue]]

\* The user loads media through the URL form only.  The form is rendered while
\* videoFile is null and its button is disabled while isDownloading, so at most
\* one acquisition is in flight in this specification.
NextPipeline ==
  \/ \E u \in UrlInputs : SetUrlInput(u)
  \/ \E tab \in {"upload", "url"} : SetActiveTab(tab)
  \/ HandleReset
  \/ \E a \in Slots : HandleUrlSubmit(a)
  \/ \E a \in Slots, reply \in ResolverReplies : ResolverReply(a, reply)
  \/ \E a \in Slots, reply \in DownloadReplies : DirectReply(a, reply)
  \/ \E a \in Slots, reply \in DownloadReplies : ProxyReply(a, reply)

\* The same, with the analysis of the files acquired.
NextAcq ==
  \/ NextPipeline
  \/ StartAnalysis
  \/ \E file \in analyses, ok \in BOOLEAN : AnalysisDone(file, ok)

SpecAcq == InitApp /\ [][NextAcq]_vars

\* The player with a file loaded and analysed: App after handleFileUpload and a
\* completed startAnalysis, for each segment list the analysis may deliver.
InitPlayer ==
  /\ videoFile \in UploadedFiles
  /\ analysisStatus = "COMPLETED"
  /\ analysisResult \in {[summary |-> <<"summary">>, segments |-> segs] : segs \in SegmentLists}
  /\ error = Null
  /\ progressMessage = <<"Analyzing content for fluff and silence...">>
  /\ activeTab = "upload"
  /\ urlInput = <<>>
  /\ isDownloading = FALSE
  /\ downloadStatus = <<>>
  /\ acq = [a \in Slots |-> IdleSlot]
  /\ analyses = {}
  /\ rawUrl = <<>>
  /\ cleanUrl = <<>>
  /\ job = IdleJob
  /\ Mounted
  /\ ev = [op |-> "init", slot |-> 0, settled |-> "no", failure |-> Null, thrown |-> NoError, logged |-> Undefined,
           calls |-> <<>>, progress |-> <<>>,
           pre |-> [videoFile |-> NoValue, analysisStatus |-> "IDLE", analysisResult |-> NoValue]]

NextPlayer ==
  \/ Play
  \/ \E pos \in 0..MaxTime : HandleSeek(pos)
  \/ HandleTimeUpdate
  \/ SkipFeedbackReset
  \/ \E speed \in Speeds : ChangeSpeed(speed)
  \/ ToggleSmartSkip
  \/ ToggleSmartTurbo

SpecPlayer == InitPlayer /\ [][NextPlayer]_vars

\* Fairness: a callback given to setTimeout runs once its 800 ms have passed.
SpecPlayerFair == InitPlayer /\ [][NextPlayer]_vars /\ WF_vars(SkipFeedbackReset)

\* The whole of App's media loading: the URL form, the upload field and the
\* reset button, with acquisitions in flight.  Each request is answered by a
\* failure to connect or by a success.
AppResolverReplies == {
  Reply(FALSE, Null, FALSE, NoData),
  Reply(TRUE, JsonType, TRUE, Payload(<<"stream">>, Undefined, StreamUrl))
}
AppDownloadReplies == {
  Fetched(FALSE, 0, FALSE, <<>>),
  Fetched(TRUE, 200, TRUE, <<"video/webm">>)
}

NextApp ==
  \/ \E u \in UrlInputs : SetUrlInput(u)
  \/ \E tab \in {"upload", "url"} : SetActiveTab(tab)
  \/ \E file \in UploadedFiles : HandleFileUpload(file)
  \/ HandleReset
  \/ \E a \in Slots : HandleUrlSubmit(a)
  \/ \E a \in Slots, reply \in AppResolverReplies : ResolverReply(a, reply)
  \/ \E a \in Slots, reply \in AppDownloadReplies : DirectReply(a, reply)
  \/ \E a \in Slots, reply \in AppDownloadReplies : ProxyReply(a, reply)

SpecApp == InitApp /\ [][NextApp]_vars

\* App's media loading with the player's mode controls: a direct link, the upload
\* field, the reset button, the acquisitions in flight and, while a file is
\* loaded, the speed buttons and the two toggles.
NextSession ==
  \/ SetUrlInput(DirectUrl)
  \/ \E tab \in {"upload", "url"} : SetActiveTab(tab)
  \/ \E file \in UploadedFiles : HandleFileUpload(file)
  \/ HandleReset
  \/ \E a \in Slots : HandleUrlSubmit(a)
  \/ \E a \in Slots, reply \in AppDownloadReplies : DirectReply(a, reply)
  \/ \E a \in Slots, reply \in AppDownloadReplies : ProxyReply(a, reply)
  \/ \E speed \in Speeds : ChangeSpeed(speed)
  \/ ToggleSmartSkip
  \/ ToggleSmartTurbo

SpecSession == InitApp /\ [][NextSession]_vars

\* Two acquisitions side by side: App's media loading as in SpecApp, with the
\* two handleUrlSubmit calls that a reset or an upload during a download lets
\* the user have in flight together.
Twins == {1, 2}

NextTwin ==
  \/ \E u \in UrlInputs : SetUrlInput(u)
  \/ \E tab \in {"upload", "url"} : SetActiveTab(tab)
  \/ \E file \in UploadedFiles : HandleFileUpload(file)
  \/ HandleReset
  \/ \E a \in Twins : HandleUrlSubmit(a)
  \/ \E a \in Twins, reply \in AppResolverReplies : ResolverReply(a, reply)
  \/ \E a \in Twins, reply \in AppDownloadReplies : DirectReply(a, reply)
  \/ \E a \in Twins, reply \in AppDownloadReplies : ProxyReply(a, reply)

SpecTwin == InitApp /\ [][NextTwin]_vars

\* App's media loading with the analysis of what is loaded: a direct link, the
\* upload field, the reset button, the acquisitions in flight, and startAnalysis
\* with its completions, which arrive whatever has been loaded or cleared since.
NextMedia ==
  \/ SetUrlInput(DirectUrl)
  \/ \E tab \in {"upload", "url"} : SetActiveTab(tab)
  \/ \E file \in UploadedFiles : HandleFileUpload(file)
  \/ HandleReset
  \/ \E a \in Slots : HandleUrlSubmit(a)
  \/ \E a \in Slots, reply \in AppDownloadReplies : DirectReply(a, reply)
  \/ \E a \in Slots, reply \in AppDownloadReplies : ProxyReply(a, reply)
  \/ StartAnalysis
  \/ \E file \in analyses, ok \in BOOLEAN : AnalysisDone(file, ok)

SpecMedia == InitApp /\ [][NextMedia]_vars

\* One acquisition for each of a set of links: direct links with and without a
\* path, a file name and a query, direct links that name a video-sharing host
\* in their query or path, and the two forms of a YouTube link.
FileUrls == {
  YoutubeShort,
  YoutubeLong,
  DirectUrl,
  <<"https:", "/", "/", "cdn.example", "/", "clip.mp4">>,
  <<"https:", "/", "/", "cdn.example", "/", "media", "/">>,
  <<"https:", "/", "/", "cdn.example", "/", "?", "x", "=", "1">>,
  <<"https:", "/", "/", "cdn.example">>,
  <<"https:", "/", "/", "cdn.example", "/", "clip.mp4", "?", "next", "=", "/", "a", "/", "b">>,
  <<"https:", "/", "/", "cdn.example", "/", "clip.mp4", "?", "ref", "=", "youtube.com">>,
  <<"https:", "/", "/", "cdn.example", "/", "youtu.be", "/", "clip.mp4">>
}

InitFile ==
  /\ videoFile = NoValue
  /\ analysisStatus = "IDLE"
  /\ analysisResult = NoValue
  /\ error = Null
  /\ progressMessage = <<>>
  /\ activeTab = "url"
  /\ urlInput \in FileUrls
  /\ isDownloading = FALSE
  /\ downloadStatus = <<>>
  /\ acq = [a \in Slots |-> IdleSlot]
  /\ analyses = {}
  /\ rawUrl = <<>>
  /\ cleanUrl = <<>>
  /\ job = IdleJob
  /\ Mounted
  /\ ev = [op |-> "init", slot |-> 0, settled |-> "no", failure |-> Null, thrown |-> NoError, logged |-> Undefined,
           calls |-> <<>>, progress |-> <<>>,
           pre |-> [videoFile |-> NoValue, analysisStatus |-> "IDLE", analysisResult |-> NoValue]]

NextFile ==
  \/ \E a \in Slots : HandleUrlSubmit(a)
  \/ \E a \in Slots, reply \in AppResolverReplies : ResolverReply(a, reply)
  \/ \E a \in Slots, reply \in AppDownloadReplies : DirectReply(a, reply)
  \/ \E a \in Slots, reply \in AppDownloadReplies : ProxyReply(a, reply)

SpecFile == InitFile /\ [][NextFile]_vars

\* resolveYoutubeUrl's sanitize step on its own, for each input string.
InitNorm ==
  /\ videoFile = NoValue
  /\ analysisStatus = "IDLE"
  /\ analysisResult = NoValue
  /\ error = Null
  /\ progressMessage = <<>>
  /\ activeTab = "url"
  /\ urlInput = <<>>
  /\ isDownloading = FALSE
  /\ downloadStatus = <<>>
  /\ acq = [a \in Slots |-> IdleSlot]
  /\ analyses = {}
  /\ rawUrl \in NormInputs
  /\ cleanUrl = rawUrl
  /\ job = IdleJob
  /\ Mounted
  /\ ev = [op |-> "init", slot |-> 0, settled |-> "no", failure |-> Null, thrown |-> NoError, logged |-> Undefined,
           calls |-> <<>>, progress |-> <<>>,
           pre |-> [videoFile |-> NoValue, analysisStatus |-> "IDLE", analysisResult |-> NoValue]]

NextNorm == Sanitize \/ SanitizeAgain

SpecNorm == InitNorm /\ [][NextNorm]_vars

\* analyzeVideoContent on its own, for files below, at and above the limit.
NextAnalyze ==
  \/ \E file \in MediaFiles : AnalyzeVideoContent(file)
  \/ \E reply \in HandleReplies : UploadReply(reply)
  \/ PollTimer
  \/ \E reply \in HandleReplies : GetReply(reply)
  \/ \E ok \in BOOLEAN : EncodeDone(ok)
  \/ \E reply \in GenerateReplies : GenerateReply(reply)

SpecAnalyze == InitApp /\ [][NextAnalyze]_vars

\* Fairness: the timer fires, and every request of analyzeVideoContent is
\* answered or rejected.
SpecAnalyzeFair ==
  /\ InitApp /\ [][NextAnalyze]_vars
  /\ WF_vars(\E reply \in HandleReplies : UploadReply(reply))
  /\ WF_vars(PollTimer)
  /\ WF_vars(\E reply \in HandleReplies : GetReply(reply))
  /\ WF_vars(\E ok \in BOOLEAN : EncodeDone(ok))
  /\ WF_vars(\E reply \in GenerateReplies : GenerateReply(reply))

\* Fairness: every request that is outstanding is eventually answered (a reply or
\* a network failure), which is what the awaits of the code wait for.
SpecAcqFair ==
  /\ InitApp /\ [][NextPipeline]_vars
  /\ \A a \in Slots : WF_vars(\E reply \in ResolverReplies : ResolverReply(a, reply))
  /\ \A a \in Slots : WF_vars(\E reply \in DownloadReplies : DirectReply(a, reply))
  /\ \A a \in Slots : WF_vars(\E reply \in DownloadReplies : ProxyReply(a, reply))

\* ------------------------------------------------------------- properties
\* The request histories there are: of each acquisition in flight, and of the
\* step just taken (which keeps the history of an acquisition that has ended).
Traces == {acq[a].calls : a \in Slots} \cup {ev.calls}

IsResolver(c) == c.kind = "resolver"
IsProxy(c) == c.kind = "proxy"
IsDirect(c) == c.kind = "direct"
IsDownload(c) == c.kind \in {"direct", "proxy"}
ResolverCalls(cs) == SelectSeq(cs, IsResolver)
ProxyCalls(cs) == SelectSeq(cs, IsProxy)
DirectCalls(cs) == SelectSeq(cs, IsDirect)
DownloadCalls(cs) == SelectSeq(cs, IsDownload)
AllFailed(cs) == \A k \in 1..Len(cs) : cs[k].result = "failed"

\* The step just taken ended an acquisition in resolveYoutubeUrl's throw.
ResolutionExhausted == ev.op = "resolverReply" /\ ev.settled = "error"
\* The step just taken ended an acquisition in handleUrlSubmit's own throw.
DownloadExhausted == ev.op = "proxyReply" /\ ev.settled = "error"

\* tokens occurs in message as a contiguous run.
Includes(message, tokens) ==
  \E k \in 0..(Len(message) - Len(tokens)) : SubSeq(message, k + 1, k + Len(tokens)) = tokens

\* C1: the resolver instances are contacted in the order of the list, one request
\* each, and nothing is sent to an instance after one has succeeded: the resolver
\* requests of an acquisition are instances 1..n, all but the n-th failed, they
\* precede every other request, and once the acquisition has left the resolver
\* chain by a success the n-th is the one that succeeded.
C1_Trace(cs) ==
  LET r == ResolverCalls(cs)
  IN /\ Len(r) <= NumInstances
     /\ \A k \in 1..Len(r) : r[k].k = k /\ cs[k] = r[k]
     /\ \A k \in 1..(Len(r) - 1) : r[k].result = "failed"
     /\ (Len(r) > 0 /\ Len(cs) > Len(r)) => r[Len(r)].result = "ok"
     /\ \A k \in 1..Len(r) : r[k].result = "pending" => k = Len(cs)
C1_ResolverOrder == \A cs \in Traces : C1_Trace(cs)

\* C1 witness: instances 1 and 2 failed, instance 3 succeeded, and the next
\* request is the first proxy.
C1_Witness ==
  /\ ev.op = "resolverReply"
  /\ Len(ev.calls) = 4
  /\ ev.calls[1].result = "failed" /\ ev.calls[2].result = "failed"
  /\ ev.calls[3].kind = "resolver" /\ ev.calls[3].result = "ok"
  /\ ev.calls[4].kind = "proxy"
  /\ acq[ev.slot].pc = "proxy"

C3_Trace(cs) ==
  \A k \in 1..Len(cs) :
    (cs[k].kind = "direct" /\ cs[k].result = "ok") => (k = Len(cs) /\ ProxyCalls(cs) = <<>>)
C3_DirectFastPath == \A cs \in Traces : C3_Trace(cs)

\* C3 witness: an acquisition ended with the blob of its direct fetch.
C3_Witness ==
  /\ ev.op = "directReply" /\ ev.settled = "file"
  /\ Len(ev.calls) = 1 /\ ev.calls[1].kind = "direct" /\ ev.calls[1].result = "ok"
  /\ videoFile # NoValue /\ videoFile.name = <<"clip.mp4">>

\* C4: the proxies are fetched in the order of the list, each at most once; a
\* failed direct fetch or a failed proxy is followed by the next proxy, and the
\* loop ends only with the first proxy that succeeds or with the failure of the
\* last one.
C4_Trace(cs) ==
  LET p == ProxyCalls(cs)
      d == DirectCalls(cs)
  IN /\ Len(p) <= NumProxies
     /\ \A k \in 1..Len(p) : p[k].k = k /\ cs[Len(cs) - Len(p) + k] = p[k]
     /\ \A k \in 1..(Len(p) - 1) : p[k].result = "failed"
     /\ \A k \in 1..Len(p) : (p[k].result = "failed" /\ k < NumProxies) => Len(p) > k
     /\ \A k \in 1..Len(d) : d[k].result = "failed" => Len(p) >= 1
C4_ProxyOrder ==
  /\ \A cs \in Traces : C4_Trace(cs)
  /\ DownloadExhausted => (Len(ProxyCalls(ev.calls)) = NumProxies /\ AllFailed(ProxyCalls(ev.calls)))
  /\ (ev.op = "proxyReply" /\ ev.settled = "file") => ev.calls[Len(ev.calls)].result = "ok"

\* C4 witness: the direct fetch and two proxies failed, the third proxy succeeded.
C4_Witness ==
  /\ ev.op = "proxyReply" /\ ev.settled = "file"
  /\ Len(ev.calls) = 4
  /\ ev.calls[1].kind = "direct" /\ ev.calls[1].result = "failed"
  /\ ev.calls[2].result = "failed" /\ ev.calls[3].result = "failed"
  /\ ev.calls[4].k = NumProxies /\ ev.calls[4].result = "ok"

DownloadFailedPrefix == <<"Failed to download video. ">>
IsDownloadFailed(thrown) ==
  thrown.message # Null /\ Len(thrown.message) >= 1 /\ SubSeq(thrown.message, 1, 1) = DownloadFailedPrefix

\* C5: an acquisition that got as far as the download ends with the download
\* error exactly when its direct fetch (if made) and all its proxies failed, and
\* the message of that error ends with the failure of the last attempt.
C5_DownloadExhausted ==
  /\ (ev.settled # "no" /\ DownloadCalls(ev.calls) # <<>>) =>
       (IsDownloadFailed(ev.thrown) <=>
          (AllFailed(DownloadCalls(ev.calls)) /\ Len(ProxyCalls(ev.calls)) = NumProxies))
  /\ (ev.settled # "no" /\ DownloadCalls(ev.calls) = <<>>) => ~IsDownloadFailed(ev.thrown)
  /\ IsDownloadFailed(ev.thrown) =>
       (ev.failure # Null /\ ev.thrown.message = DownloadFailedPrefix \o ev.failure)

\* C5 witness: after a proxy answered 404 and a proxy failed to connect, the last
\* proxy's body could not be read.
C5_Witness ==
  /\ DownloadExhausted
  /\ error = <<"Failed to download video. ", "TypeError: Failed to read body">>
  /\ Len(ProxyCalls(ev.calls)) = NumProxies

\* C6: when the resolution of a YouTube link has failed, the acquisition has
\* issued no download request and issues none afterwards: no request history
\* holds a download request without a succeeded resolver request before it once
\* it holds a resolver request, and the acquisition is over.
C6_Trace(cs) ==
  \A k \in 1..Len(cs) :
    (IsDownload(cs[k]) /\ ResolverCalls(cs) # <<>>) =>
       \E j \in 1..(k - 1) : cs[j].kind = "resolver" /\ cs[j].result = "ok"
C6_NoDownloadAfterFailedResolution ==
  /\ \A cs \in Traces : C6_Trace(cs)
  /\ ResolutionExhausted => (DownloadCalls(ev.calls) = <<>> /\ acq[ev.slot].pc = "idle")

\* C6 witness: the resolution has just failed.
C6_Witness ==
  /\ ResolutionExhausted
  /\ Len(ev.calls) = NumInstances
  /\ ~isDownloading /\ downloadStatus = <<>>

AcquisitionOps == {"submit", "resolverReply", "directReply", "proxyReply"}

\* C7: handleUrlSubmit sets videoFile only at its successful end, after a download
\* request (and, for a YouTube link, a resolver request) succeeded; when it ends
\* in a failure, videoFile, analysisStatus and analysisResult are as they were and
\* error is the message of the error thrown.
C7_AllOrNothing ==
  /\ (ev.op \in AcquisitionOps /\ ev.settled # "file") =>
       /\ videoFile = ev.pre.videoFile
       /\ analysisStatus = ev.pre.analysisStatus
       /\ analysisResult = ev.pre.analysisResult
  /\ ev.settled = "error" => (ev.thrown.message # Null /\ error = ev.thrown.message)
  /\ ev.settled = "file" =>
       /\ ev.calls[Len(ev.calls)].result = "ok" /\ IsDownload(ev.calls[Len(ev.calls)])
       /\ ResolverCalls(ev.calls) # <<>> =>
            ResolverCalls(ev.calls)[Len(ResolverCalls(ev.calls))].result = "ok"
       /\ videoFile # NoValue /\ videoFile.from = "url"

\* C7 witness: a download failed while an analysis of an earlier file had
\* completed in the meantime; its result and status are still there.
C7_Witness ==
  /\ DownloadExhausted
  /\ analysisStatus = "COMPLETED" /\ analysisResult # NoValue
  /\ videoFile = NoValue
  /\ error = ev.thrown.message

\* The fallback sequence of an ended acquisition is complete: every instance was
\* tried and failed, or every download option (the direct fetch for a direct
\* link, then every proxy) was tried and failed.
CompleteFallback(cs) ==
  \/ /\ Len(cs) = NumInstances /\ AllFailed(cs) /\ DownloadCalls(cs) = <<>>
  \/ /\ Len(ProxyCalls(cs)) = NumProxies /\ AllFailed(DownloadCalls(cs))
     /\ (ResolverCalls(cs) = <<>> => Len(DirectCalls(cs)) = 1)

InFlight(a) == acq[a].pc # "idle"
Ended(a) ==
  /\ acq[a].pc = "idle"
  /\ ev.slot = a
  /\ \/ ev.settled = "file" /\ videoFile # NoValue
     \/ ev.settled = "error" /\ error = ev.thrown.message /\ CompleteFallback(ev.calls)

\* C8: if every request is eventually answered, every acquisition ends, with a
\* file or with an error reported after the complete fallback sequence failed.
C8_Terminates == \A a \in Slots : InFlight(a) ~> Ended(a)

\* C8 witness: an acquisition ended in failure after eight instances failed, the
\* ninth resolved the link and all proxies failed.
C8_Witness ==
  /\ DownloadExhausted
  /\ Len(ev.calls) = NumInstances + NumProxies
  /\ acq[ev.slot].pc = "idle"

\* Position t lies in the half-open interval of the k-th segment.
Holds(k, t) == t >= skipSegments[k].start /\ t < skipSegments[k].end
\* The step taken is a clock-advance notification.
IsTimeUpdate == ev'.op = "timeUpdate"

\* C9: on a clock-advance notification with skipping enabled, when some segment
\* holds the position, the first such segment of the list is chosen: the play
\* head is set to its end, and its reason is shown.
C9_FirstInListOrder ==
  [][(IsTimeUpdate /\ smartSkipEnabled /\ \E k \in 1..Len(skipSegments) : Holds(k, videoTime)) =>
       \E k \in 1..Len(skipSegments) :
         /\ Holds(k, videoTime)
         /\ \A j \in 1..(k - 1) : ~Holds(j, videoTime)
         /\ videoTime' = skipSegments[k].end
         /\ skipReason' = skipSegments[k].reason
         /\ isSkipping']_vars

\* C9 witness: with [{1,3,B},{0,2,A}], the notification at position 1 chose B, the
\* first of the list although A starts earlier, and moved the play head to 3.
C9_Witness ==
  /\ ev.op = "timeUpdate"
  /\ skipSegments = <<Segment(1, 3, <<"B">>), Segment(0, 2, <<"A">>)>>
  /\ currentTime = 1
  /\ videoTime = 3
  /\ isSkipping /\ skipReason = <<"B">>

\* C10: a clock-advance notification at a position no segment holds leaves the
\* play head, the skip flag and its reason, the mode and the playback rate as
\* they were.
C10_NoMatchNoChange ==
  [][(IsTimeUpdate /\ \A k \in 1..Len(skipSegments) : ~Holds(k, videoTime)) =>
       /\ videoTime' = videoTime
       /\ isSkipping' = isSkipping /\ skipReason' = skipReason
       /\ smartSkipEnabled' = smartSkipEnabled
       /\ playbackRate' = playbackRate /\ videoRate' = videoRate
       /\ resetTimers' = resetTimers]_vars

\* C10 witness: with skipping enabled, a notification at position 3, past both
\* segments of [{0,1,A},{1,2,B}], while the flag of an earlier skip is still up.
C10_Witness ==
  /\ ev.op = "timeUpdate"
  /\ smartSkipEnabled
  /\ skipSegments = <<Segment(0, 1, <<"A">>), Segment(1, 2, <<"B">>)>>
  /\ currentTime = 3 /\ videoTime = 3
  /\ isSkipping /\ skipReason = <<"B">>

\* C11: one clock-advance notification assigns the play head at most once: after
\* it the play head is where it was, or at the end of a segment that held the
\* old position, also when that end lies inside another segment; and at most
\* one reset is scheduled.
C11_SingleJump ==
  [][IsTimeUpdate =>
       /\ \/ videoTime' = videoTime
          \/ \E k \in 1..Len(skipSegments) : Holds(k, videoTime) /\ videoTime' = skipSegments[k].end
       /\ resetTimers' <= resetTimers + 1]_vars

\* C11 witness: with [{0,2,A},{1,3,B}], the notification at position 0 jumped to
\* 2, which lies inside B, and stopped there.
C11_Witness ==
  /\ ev.op = "timeUpdate"
  /\ skipSegments = <<Segment(0, 2, <<"A">>), Segment(1, 3, <<"B">>)>>
  /\ currentTime = 0
  /\ videoTime = 2
  /\ Holds(2, videoTime)
  /\ isSkipping /\ skipReason = <<"A">>

\* The step taken is a press of the Smart x2 button / of the Skip Filler button.
IsTurboToggle == ev'.op = "toggleSmartTurbo"
IsSkipToggle == ev'.op = "toggleSmartSkip"

C13_SkipToggle ==
  [][IsSkipToggle =>
       /\ Mode = "OFF" => Mode' = "SKIP_ONLY"
       /\ Mode = "SKIP_ONLY" => Mode' = "OFF"
       /\ playbackRate' = playbackRate /\ videoRate' = videoRate]_vars

\* C14: the sanitize step is idempotent: applied to its own result it returns
\* that result.
C14_Idempotent == ev.op = "sanitize" => CleanUrl(cleanUrl) = cleanUrl

\* The string has no scheme, so it does not parse as a URL.
NoScheme(u) == u[1] \in Hosts
\* The string is a URL on a host that is neither the short nor a long host.
OtherHost(u) ==
  /\ Len(u) >= 4 /\ u[1] \in {"https:", "http:"}
  /\ u[4] \notin {"youtu.be", "www.youtube.com", "m.youtube.com"}
\* The string is a URL on a long host whose query has no parameter named v.
LongHostNoV(u) ==
  /\ Len(u) >= 4 /\ u[1] \in {"https:", "http:"}
  /\ u[4] \in {"www.youtube.com", "m.youtube.com"}
  /\ ~\E k \in 6..Len(u) : u[k] = "v" /\ u[k - 1] \in {"?", "&"}

HasIdAt(u, k, id, next) ==
  /\ Len(u) >= k + Len(id) - 1
  /\ SubSeq(u, k, k + Len(id) - 1) = id
  /\ Len(u) >= k + Len(id) => u[k + Len(id)] = next
\* The short form of a link to video id, with any query.
IsShortForm(u, id) ==
  /\ Len(u) >= 5 /\ u[1] \in {"https:", "http:"}
  /\ u[4] = "youtu.be" /\ u[5] = "/"
  /\ HasIdAt(u, 6, id, "?")
\* The long form of a link to video id: the query has one parameter named v, with
\* value id, and any parameters before and after it.
IsLongForm(u, id) ==
  /\ Len(u) >= 7 /\ u[1] \in {"https:", "http:"}
  /\ u[4] \in {"www.youtube.com", "m.youtube.com"}
  /\ u[5] = "/" /\ u[6] = "watch" /\ u[7] = "?"
  /\ \E k \in 8..Len(u) :
       /\ u[k] = "v" /\ u[k - 1] \in {"?", "&"}
       /\ Len(u) > k /\ u[k + 1] = "="
       /\ HasIdAt(u, k + 2, id, "&")
       /\ \A j \in 8..Len(u) : (u[j] = "v" /\ u[j - 1] \in {"?", "&"}) => j = k

\* C16: the sanitize step rewrites the short form and the long form of a link to
\* a video identifier, whatever the extra query parameters, to exactly
\* https://www.youtube.com/watch?v=<id>.
C16_Canonical ==
  ev.op = "sanitize" =>
    \A id \in VideoIds :
      (IsShortForm(rawUrl, id) \/ IsLongForm(rawUrl, id))
        => cleanUrl = <<"https:", "/", "/", "www.youtube.com", "/", "watch", "?", "v", "=">> \o id

\* C16 witness: the long form with a parameter before v was sanitized to the
\* link the short form of the same identifier is sanitized to.
C16_Witness ==
  /\ ev.op = "sanitize"
  /\ rawUrl = <<"http:", "/", "/", "m.youtube.com", "/", "watch", "?", "t", "=", "42", "&", "v", "=", "abc123">>
  /\ cleanUrl = <<"https:", "/", "/", "www.youtube.com", "/", "watch", "?", "v", "=", "abc123">>
  /\ cleanUrl = CleanUrl(<<"https:", "/", "/", "youtu.be", "/", "abc123", "?", "t", "=", "42">>)

\* The acquisition that has just ended was of a YouTube link, its first resolver
\* failed, its second resolver succeeded and its first proxy succeeded.
C17_Scenario ==
  /\ ev.settled # "no"
  /\ Len(ev.calls) >= 3
  /\ ev.calls[1].kind = "resolver" /\ ev.calls[1].result = "failed"
  /\ ev.calls[2].result = "ok"
  /\ ev.calls[3].result = "ok"
\* What the scenario's acquisition requested and produced: instance 1, instance
\* 2, proxy 1 and nothing else, and a file named youtube_video.mp4.
C17_Requests ==
  /\ ev.settled = "file"
  /\ Len(ev.calls) = 3
  /\ ev.calls[1].kind = "resolver" /\ ev.calls[1].k = 1
  /\ ev.calls[2].kind = "resolver" /\ ev.calls[2].k = 2
  /\ ev.calls[3].kind = "proxy" /\ ev.calls[3].k = 1
  /\ videoFile # NoValue /\ videoFile.name = <<"youtube_video.mp4">>
\* The setDownloadStatus calls of the acquisition that set a text.
NonEmptyText(e) == e.text # <<>>
ProgressEvents == SelectSeq(ev.progress, NonEmptyText)

\* C17 as stated: in the scenario the progress events are exactly a resolving
\* event, emitted before the first resolver request, and a downloading event,
\* emitted after the resolver requests and before the proxy request.
C17_Original ==
  C17_Scenario =>
    /\ C17_Requests
    /\ ProgressEvents = <<Emitted(<<"Resolving YouTube stream...">>, 0),
                          Emitted(<<"Downloading video data (via Proxy)...">>, 2)>>

\* C17 amended: in the scenario the progress events are exactly an initializing
\* event and a resolving event, both emitted before the first resolver request,
\* and a downloading event, emitted after the two resolver requests and before
\* the proxy request; the last setDownloadStatus call clears the text.
C17_EndToEnd ==
  C17_Scenario =>
    /\ C17_Requests
    /\ ProgressEvents = <<Emitted(<<"Initializing...">>, 0),
                          Emitted(<<"Resolving YouTube stream...">>, 0),
                          Emitted(<<"Downloading video data (via Proxy)...">>, 2)>>
    /\ ev.progress = Append(ProgressEvents, Emitted(<<>>, 3))
    /\ downloadStatus = <<>> /\ ~isDownloading

\* C17 witness: the scenario has just ended with the file installed.
C17_Witness ==
  /\ C17_Scenario
  /\ ev.op = "proxyReply" /\ ev.settled = "file"
  /\ ev.calls[1].target = <<"https:", "/", "/", "www.youtube.com", "/", "watch", "?", "v", "=", "abc123">>
  /\ videoFile # NoValue /\ videoFile.name = <<"youtube_video.mp4">>
  /\ Len(ev.progress) = 4

\* The acquisitions that are waiting for the answer to a request.
Outstanding == {a \in Slots : acq[a].pc # "idle"}

\* C18: at most one resolver or download request is outstanding at a time.
C18_OneOutstanding == Cardinality(Outstanding) <= 1

\* The last path segment of a URL: of what follows the host up to the query, the
\* part after the last '/'.
LastPathSegment(u) ==
  LET q == IndexOf(u, "?")
      upto == IF q = 0 THEN Len(u) ELSE q - 1
      path == SubSeq(u, 5, upto)
  IN SubSeq(path, LastIndexOf(path, "/") + 1, Len(path))
\* The host of the link is a video-sharing host.
IndirectHost(u) == Len(u) >= 4 /\ u[4] \in {"youtu.be", "www.youtube.com", "m.youtube.com"}

\* C19: the file acquired from an indirect source is named youtube_video.mp4; the
\* file acquired from a direct source is named after the last path segment of
\* the URL, without the query, and video.mp4 when that segment is empty.
C19_FileName ==
  ev.settled = "file" =>
    videoFile.name =
      (IF IndirectHost(urlInput) THEN <<"youtube_video.mp4">>
       ELSE IF LastPathSegment(urlInput) = <<>> THEN <<"video.mp4">>
       ELSE LastPathSegment(urlInput))

\* C20: when an acquisition ends after the user has aborted it, by a reset or by
\* loading another file while it was running, it leaves videoFile,
\* analysisStatus and analysisResult as they are.
C20_AbortDiscards ==
  [][\A a \in Slots :
       (acq[a].pc # "idle" /\ acq[a].aborted /\ acq'[a].pc = "idle")
         => UNCHANGED <<videoFile, analysisStatus, analysisResult>>]_vars

\* C21: whenever the media source changes (reset, upload, or the end of a URL
\* acquisition that delivers a file), the playback state is back at its initial
\* value: mode OFF, base playback rate, no skip shown and no reason.
C21_ResetOnSourceChange ==
  [][videoFile' # videoFile
       => /\ Mode' = "OFF"
          /\ playbackRate' = BaseRate
          /\ isSkipping' = FALSE
          /\ skipReason' = Null]_vars

\* The step is the reply `reply` to the resolver request of slot a (the history
\* then names the step and the slot, and holds the failure of the reply).
ResolverReplied(a, reply) ==
  /\ ev'.failure = TryInstance(reply).err
  /\ ResolverReply(a, reply)

\* The response came back and its declared content type is absent or not JSON.
NotDeclaredJson(reply) == reply.net /\ (reply.ctype = Null \/ ~IncludesJson(reply.ctype))

\* The acquisition of slot a goes on with the resolver instance after the one it
\* was waiting for, or ends in failure when that was the last one.
NextBackendTried(a) ==
  IF acq[a].i < NumInstances
  THEN /\ acq'[a].pc = "resolver"
       /\ acq'[a].i = acq[a].i + 1
       /\ Len(acq'[a].calls) = Len(acq[a].calls) + 1
       /\ acq'[a].calls[Len(acq'[a].calls)] = Call("resolver", acq[a].i + 1, CleanUrl(acq[a].url))
  ELSE /\ acq'[a].pc = "idle"
       /\ ev'.settled = "error"
       /\ videoFile' = videoFile

\* C22: in resolveYoutubeUrl, a response whose declared content type is absent
\* or not JSON is a failure of that backend whatever its body holds: the failure
\* is the content-type failure (the body is not parsed), no URL is resolved from
\* it and no download starts, and the next backend is tried.
C22_ContentTypeGate ==
  [][\A a \in {ev'.slot} \cap Slots, reply \in ResolverReplies :
       (ev'.op = "resolverReply" /\ NotDeclaredJson(reply) /\ ResolverReplied(a, reply))
         => /\ ev'.failure[1] = "Invalid content-type: "
            /\ acq'[a].pc \notin {"direct", "proxy"}
            /\ DownloadCalls(ev'.calls) = <<>>
            /\ ev'.calls[Len(acq[a].calls)].result = "failed"
            /\ NextBackendTried(a)]_vars

\* A backend has answered with an HTML content type and the next one is being
\* asked.
C22_Witness ==
  /\ ev.op = "resolverReply" /\ ev.settled = "no"
  /\ ev.failure = <<"Invalid content-type: ">> \o HtmlType
  /\ Len(ev.calls) >= 3
  /\ ev.calls[Len(ev.calls)].kind = "resolver"
  /\ ev.calls[Len(ev.calls)].result = "pending"

\* The response came back, declared JSON, and its body parsed to a payload.
JsonPayload(reply) == reply.net /\ reply.ctype # Null /\ IncludesJson(reply.ctype) /\ reply.parses

\* The picker items of a payload (none when it has no picker).
PickerItems(data) == IF data.hasPicker THEN data.picker ELSE <<>>

\* url is the url of the first item of items whose type is video.
IsFirstVideoUrl(items, url) ==
  \E k \in 1..Len(items) :
    /\ items[k].type = <<"video">>
    /\ \A j \in 1..(k - 1) : items[j].type # <<"video">>
    /\ items[k].url = url

\* resolveYoutubeUrl has returned url to handleUrlSubmit in slot a: the last
\* resolver request is closed as answered and the download of url has started.
ResolvedWith(a, url) ==
  /\ acq'[a].fetchUrl = url
  /\ acq'[a].pc = "proxy"
  /\ acq'[a].calls[Len(acq[a].calls)].result = "ok"
  /\ acq'[a].calls[Len(acq'[a].calls)] = Call("proxy", 1, CreateProxy(1, url))

\* C23: for a JSON payload, resolveYoutubeUrl succeeds with the payload's url
\* when status is stream or redirect, with the url of the first picker item of
\* type video when status is picker, and every other payload (status error, a
\* picker without a video item, any other status) is a failure of that backend,
\* after which the next backend is tried.
C23_PayloadOutcome ==
  [][\A a \in {ev'.slot} \cap Slots, reply \in ResolverReplies :
       (ev'.op = "resolverReply" /\ JsonPayload(reply) /\ ResolverReplied(a, reply))
         => LET data == reply.data
                videos == {k \in 1..Len(PickerItems(data)) : data.picker[k].type = <<"video">>}
            IN IF data.status \in {<<"stream">>, <<"redirect">>}
               THEN ResolvedWith(a, data.url)
               ELSE IF data.status = <<"picker">> /\ videos # {}
                    THEN /\ IsFirstVideoUrl(data.picker, acq'[a].fetchUrl)
                         /\ ResolvedWith(a, acq'[a].fetchUrl)
                    ELSE /\ acq'[a].pc \notin {"direct", "proxy"}
                         /\ ev'.failure # Null
                         /\ ev'.calls[Len(acq[a].calls)].result = "failed"
                         /\ NextBackendTried(a)]_vars

\* A picker payload with an audio item and two video items has been resolved to
\* its first video item, after a backend that failed.
C23_Witness ==
  /\ ev.op = "resolverReply"
  /\ \E a \in Slots :
       /\ acq[a].pc = "proxy"
       /\ acq[a].fetchUrl = PickerUrl
       /\ Len(acq[a].calls) = 3
       /\ acq[a].calls[1].result = "failed"
       /\ acq[a].calls[2].result = "ok"

\* C24: a reference is classified as indirect if and only if its host contains
\* youtube.com or youtu.be; a direct media URL that has such a string only in
\* its path or query is classified as direct and no resolver is asked for it.
C24_ClassifiedByHost ==
  \A a \in Slots :
    acq[a].pc # "idle" =>
      /\ acq[a].isYT <=> IndirectHost(acq[a].url)
      /\ ~IndirectHost(acq[a].url) => ResolverCalls(acq[a].calls) = <<>>

\* The acquisition with request history cs took the resolver branch.
TookResolverBranch(cs) == cs # <<>> /\ cs[1].kind = "resolver"

\* C25, for one request history: of a direct source, the first request is the
\* one direct fetch; of an indirect source, no request is a direct fetch and
\* the first download request goes to proxy 1.
C25_Trace(cs) ==
  LET d == DownloadCalls(cs)
  IN IF TookResolverBranch(cs)
     THEN /\ DirectCalls(cs) = <<>>
          /\ d # <<>> => (d[1].kind = "proxy" /\ d[1].k = 1)
     ELSE cs # <<>> =>
            /\ cs[1].kind = "direct"
            /\ Len(DirectCalls(cs)) = 1
            /\ \A k \in 1..Len(ProxyCalls(cs)) : ProxyCalls(cs)[k] = cs[k + 1]

\* C25: in the download step the direct, unproxied fetch of the URL is made
\* exactly once and before any proxy when the source is direct, and never when
\* the source is indirect, whose first download request goes to proxy 1.
C25_DirectOnlyForDirect ==
  /\ \A cs \in Traces : C25_Trace(cs)
  /\ \A a \in Slots :
       acq[a].pc # "idle" =>
         /\ acq[a].isYT <=> TookResolverBranch(acq[a].calls)
         /\ ~acq[a].isYT => acq[a].calls[1].target = acq[a].url

\* The one direct fetch of a direct source failed, proxy 1 and 2 were asked
\* after it and proxy 2 delivered the file.
C25_Witness ==
  /\ ev.op = "proxyReply" /\ ev.settled = "file"
  /\ Len(ev.calls) = 3
  /\ ev.calls[1].kind = "direct" /\ ev.calls[1].result = "failed" /\ ev.calls[1].target = DirectUrl
  /\ ev.calls[2].kind = "proxy" /\ ev.calls[2].k = 1
  /\ ev.calls[3].kind = "proxy" /\ ev.calls[3].k = 2 /\ ev.calls[3].result = "ok"

\* C26: in mode OFF a clock-advance notification leaves the play head where it
\* is and does not raise the skip flag, whatever the position and the segments:
\* the flag and its reason stay as they are and no reset is scheduled.
C26_OffNeverSkips ==
  [][(IsTimeUpdate /\ Mode = "OFF") =>
       /\ videoTime' = videoTime
       /\ isSkipping' = isSkipping
       /\ skipReason' = skipReason
       /\ resetTimers' = resetTimers]_vars

\* A notification in mode OFF, at a position the first segment holds: the play
\* head is still there and no skip is shown.
C26_Witness ==
  /\ ev.op = "timeUpdate"
  /\ Mode = "OFF"
  /\ Len(skipSegments) > 0 /\ Holds(1, currentTime)
  /\ videoTime = currentTime
  /\ ~isSkipping /\ skipReason = Null

\* Segment k of the list has end <= start.
Degenerate(k) == skipSegments[k].end <= skipSegments[k].start

\* C27: a segment with end <= start matches no position.  On a clock-advance
\* notification no jump is made because of such a segment (no jump shows its
\* reason), the handler runs to its end, and the segments listed after it are
\* still considered: when skipping is enabled and a segment holds the position,
\* the jump goes to the end of the first segment that holds it.
C27_DegenerateNeverMatches ==
  [][IsTimeUpdate =>
       /\ currentTime' = videoTime
       /\ \A k \in 1..Len(skipSegments) :
            Degenerate(k) =>
              ~(resetTimers' > resetTimers /\ skipReason' = skipSegments[k].reason)
       /\ (smartSkipEnabled /\ \E k \in 1..Len(skipSegments) : Holds(k, videoTime)) =>
            \E k \in 1..Len(skipSegments) :
              /\ ~Degenerate(k)
              /\ Holds(k, videoTime)
              /\ videoTime' = skipSegments[k].end
              /\ skipReason' = skipSegments[k].reason
              /\ resetTimers' = resetTimers + 1]_vars

\* With [{3,1,X},{1,2,A}] the notification at position 1, between the bounds of
\* the inverted segment X, passed over X and jumped to the end of A.
C27_Witness ==
  /\ ev.op = "timeUpdate"
  /\ smartSkipEnabled
  /\ skipSegments = <<Segment(3, 1, <<"X">>), Segment(1, 2, <<"A">>)>>
  /\ currentTime = 1
  /\ videoTime = 2
  /\ isSkipping /\ skipReason = <<"A">>

\* C28: the mode changes only by a skip toggle or a turbo toggle: a clock-advance
\* notification, the reset of the skip feedback, a seek, playback and the
\* choice of a playback speed leave it as it is.
C28_ModeChangesOnToggles ==
  [][~(IsSkipToggle \/ IsTurboToggle) => Mode' = Mode]_vars

\* C29: every step from mode TURBO to mode OFF, by whichever toggle, leaves the
\* playback rate at the base rate 1.0.
C29_TurboOffRestoresRate ==
  [][(Mode = "TURBO" /\ Mode' = "OFF") =>
       (playbackRate' = BaseRate /\ videoRate' = BaseRate)]_vars

\* The step taken is the callback of a feedback reset.
IsFeedbackReset == ev'.op = "feedbackReset"

\* C30: a clock-advance notification that finds a matching segment raises the
\* skip flag with the reason of that segment (the first that holds the
\* position) and schedules one reset; the reset, when it fires, clears the flag
\* and the reason and leaves the play head, the mode and the playback rate as
\* they are; the flag is raised by nothing else, and once it is up it
\* eventually goes down, so it is down some time after the last jump.
C30_SkipFeedback ==
  /\ [][/\ (IsTimeUpdate /\ smartSkipEnabled /\ \E k \in 1..Len(skipSegments) : Holds(k, videoTime)) =>
            /\ isSkipping'
            /\ \E k \in 1..Len(skipSegments) :
                 /\ Holds(k, videoTime)
                 /\ \A j \in 1..(k - 1) : ~Holds(j, videoTime)
                 /\ skipReason' = skipSegments[k].reason
            /\ resetTimers' = resetTimers + 1
        /\ IsFeedbackReset =>
            /\ isSkipping' = FALSE
            /\ skipReason' = Null
            /\ resetTimers' = resetTimers - 1
            /\ videoTime' = videoTime /\ currentTime' = currentTime
            /\ Mode' = Mode /\ smartSkipEnabled' = smartSkipEnabled
            /\ playbackRate' = playbackRate /\ videoRate' = videoRate
        /\ (~isSkipping /\ isSkipping') => (IsTimeUpdate /\ videoTime' # videoTime)]_vars
  /\ (isSkipping ~> ~isSkipping)

\* The reset of the jump from 0 to 2 in [{0,2,A},{1,3,B}] has fired: the flag and
\* the reason are cleared, and the play head is still at 2 in mode TURBO.
C30_Witness ==
  /\ ev.op = "feedbackReset"
  /\ skipSegments = <<Segment(0, 2, <<"A">>), Segment(1, 3, <<"B">>)>>
  /\ currentTime = 0 /\ videoTime = 2
  /\ Mode = "TURBO" /\ videoRate = TurboRate
  /\ ~isSkipping /\ skipReason = Null /\ resetTimers = 0

\* Two requests are the same request.
SameRequest(c, d) == c.kind = d.kind /\ c.k = d.k /\ c.target = d.target

\* Two request histories are of acquisitions of the same reference: their first
\* requests ask for the same thing (whichever backend they are sent to).
SameReference(cs, ds) ==
  cs # <<>> /\ ds # <<>> /\ cs[1].kind = ds[1].kind /\ cs[1].target = ds[1].target

\* C31, for two request histories of the same reference: as long as the answers
\* to the earlier requests were the same, the next request is the same, from
\* the first request on; and where one acquisition ended, the other does not
\* go on after the same answers.
C31_Twin(cs, ds) ==
  /\ \A n \in 1..Len(cs) :
       (n <= Len(ds) /\ \A k \in 1..(n - 1) : cs[k].result = ds[k].result)
         => SameRequest(cs[n], ds[n])
  /\ Len(ds) > Len(cs) => \E k \in 1..Len(cs) : cs[k].result # ds[k].result

\* C31: acquisitions share no failure state.  Each starts at the first resolver
\* instance (or the direct fetch) and, after the resolution, at the first
\* proxy, whatever failed in another acquisition or in its own resolution; two
\* acquisitions of the same reference that get the same answers make the same
\* requests and end in the same way.
C31_NoSharedFailureState ==
  /\ \A cs \in Traces, ds \in Traces : SameReference(cs, ds) => C31_Twin(cs, ds)
  /\ \A cs \in Traces :
       /\ cs # <<>> => cs[1].k = (IF cs[1].kind = "resolver" THEN 1 ELSE 0)
       /\ ProxyCalls(cs) # <<>> => ProxyCalls(cs)[1].k = 1

\* Two acquisitions of the same YouTube link are in flight.  The first saw two
\* instances fail before the second began at instance 1; the second then got
\* the same answers, and both went on to instance 3, which resolved the link,
\* and to proxy 1.
C31_Witness ==
  /\ acq[1].pc = "proxy" /\ acq[2].pc = "proxy"
  /\ acq[1].url = acq[2].url
  /\ Len(acq[1].calls) = 4 /\ Len(acq[2].calls) = 4
  /\ \A k \in 1..4 : SameRequest(acq[1].calls[k], acq[2].calls[k])
  /\ \A k \in 1..2 : acq[1].calls[k].result = "failed" /\ acq[2].calls[k].result = "failed"
  /\ acq[1].calls[3].result = "ok" /\ acq[2].calls[3].result = "ok"
  /\ acq[1].calls[4].k = 1 /\ acq[2].calls[4].k = 1

\* analyzeVideoContent was called on a file above the limit of inline data.
LargeJob == job.pc # "idle" /\ job.file.size > InlineLimit

\* C32: for a large file analyzeVideoContent polls the uploaded file while its
\* state is PROCESSING, calls generateContent only once the state is ACTIVE,
\* and ends in failure without calling generateContent when the file is
\* reported in any other state.
C32_PollUntilActive ==
  LargeJob =>
    /\ job.pc \in {"sleep", "get"} => job.state = <<"PROCESSING">>
    /\ job.state = <<"PROCESSING">> =>
         (job.pc \in {"sleep", "get"} \/ (job.pc = "done" /\ job.outcome = "error"))
    /\ job.generated => (job.state = <<"ACTIVE">> /\ job.part.kind = "fileData")
    /\ (job.pc # "upload" /\ job.state \notin {<<"PROCESSING">>, <<"ACTIVE">>}) =>
         (job.pc = "done" /\ job.outcome = "error" /\ ~job.generated)

\* The file of a large upload was fetched at least twice, its state was then
\* reported ACTIVE, and the analysis call is under way.
C32_Witness ==
  /\ LargeJob
  /\ job.polls >= 2
  /\ job.state = <<"ACTIVE">>
  /\ job.pc = "generate" /\ job.generated

\* C33: a large-file analysis whose uploaded file is reported PROCESSING by
\* every poll does not poll for ever: every analysis that began an upload
\* eventually ends (in failure when the file never leaves PROCESSING).
C33_PollingEnds == (job.pc = "upload") ~> (job.pc = "done")

\* C34: when resolveYoutubeUrl has returned, the value handed to the download
\* step is a URL string: a stream, redirect or picker payload without a url is
\* that backend's failure, never a returned undefined or empty value.
C34_ResolvedIsUrl ==
  \A a \in Slots :
    (acq[a].isYT /\ acq[a].pc \in {"direct", "proxy"}) => Truthy(acq[a].fetchUrl)

\* C35: whatever the order of startAnalysis completions, resets and loads, a
\* non-null analysisResult is the analysis of the videoFile that is loaded: the
\* result of an analysis begun on an earlier video is never installed once
\* that video has been replaced or cleared.
C35_ResultOfLoadedFile ==
  analysisResult # NoValue => (videoFile # NoValue /\ analysisResult = AnalysisOf(videoFile))

\* The step taken is a clock-advance notification that made a jump.
IsJump == IsTimeUpdate /\ resetTimers' = resetTimers + 1

\* Number of segments of the list that end after position time.
EndsAhead(time) == Cardinality({k \in 1..Len(skipSegments) : skipSegments[k].end > time})

\* C36: every jump of handleTimeUpdate puts the play head strictly after the
\* position the notification observed, at the end of a segment of the list; so
\* each jump leaves fewer segment ends ahead of the play head, and no more
\* notifications than there are segments can jump one after the other without
\* playback in between, adjacent and overlapping segments included.
C36_JumpsAdvance ==
  [][IsJump =>
       /\ currentTime' = videoTime
       /\ videoTime' > videoTime
       /\ \E k \in 1..Len(skipSegments) : videoTime' = skipSegments[k].end
       /\ EndsAhead(videoTime') < EndsAhead(videoTime)]_vars

\* With [{0,1,A},{1,2,B}] the notification at 0 jumped to 1 and the next one,
\* which observed 1, jumped to 2: two jumps in a row, both resets pending, and
\* no segment end is left ahead of the play head.
C36_Witness ==
  /\ ev.op = "timeUpdate"
  /\ skipSegments = <<Segment(0, 1, <<"A">>), Segment(1, 2, <<"B">>)>>
  /\ currentTime = 1 /\ videoTime = 2
  /\ isSkipping /\ skipReason = <<"B">>
  /\ resetTimers = 2
  /\ EndsAhead(videoTime) = 0

\* C37: the skip flag and its reason, set by a jump, stay set until the reset
\* that this jump scheduled fires: a reset fired while a later jump's reset is
\* still pending (it is an earlier jump's) leaves the flag and the reason up.
C37_OwnResetClears ==
  [][(IsFeedbackReset /\ resetTimers' > 0) =>
       (isSkipping' = isSkipping /\ skipReason' = skipReason)]_vars

\* C38: isDownloading is true exactly while a handleUrlSubmit acquisition is
\* in flight; once none is in flight it is false and downloadStatus is empty;
\* and no step other than the end of an acquisition clears it while one runs.
C38_DownloadingWhileInFlight ==
  /\ isDownloading <=> Outstanding # {}
  /\ Outstanding = {} => downloadStatus = <<>>

\* The step taken loads or clears media: handleFileUpload, handleReset, or the
\* end of a handleUrlSubmit call that delivers a file.
LoadsOrClears == ev'.op \in {"upload", "reset"} \/ ev'.settled = "file"

\* C39: in every state of App, analysisStatus COMPLETED comes with a non-null
\* analysisResult and analysisStatus IDLE with a null one; and handleFileUpload,
\* a successful handleUrlSubmit and handleReset each leave analysisStatus IDLE
\* and analysisResult null.
C39_StatusAndResult ==
  /\ [](/\ analysisStatus = "COMPLETED" => analysisResult # NoValue
        /\ analysisStatus = "IDLE" => analysisResult = NoValue)
  /\ [][LoadsOrClears => (analysisStatus' = "IDLE" /\ analysisResult' = NoValue)]_vars

\* An acquisition delivered its file on top of a completed analysis (one that
\* ended after its video had been cleared): the status is IDLE again and the
\* result is null.
C39_Witness ==
  /\ ev.settled = "file"
  /\ ev.pre.analysisStatus = "COMPLETED" /\ ev.pre.analysisResult # NoValue
  /\ videoFile # NoValue
  /\ analysisStatus = "IDLE" /\ analysisResult = NoValue

====
